---- MODULE Spec2Model ----
(***************************************************************************)
(* Model of the follow-up edit reconciliation core:                        *)
(*   - the patch engine  applyEdits / getLineNumber  of the generation     *)
(*     route, with the JavaScript string primitives it is built on         *)
(*     (String.prototype.includes / indexOf / split / replace);            *)
(*   - the session history hook  useSessionHistory  (load, saveSnapshot,   *)
(*     undo, redo) together with the remote  code_snapshots  table;        *)
(*   - the conversation ledger hook  useConversationState .                *)
(* Strings are sequences of one-character strings.                         *)
(***************************************************************************)
EXTENDS Integers, Sequences, FiniteSets, Bags, TLC

VARIABLES
    \* ---- patch engine: one call of applyEdits ----
    patchPc,        \* "idle" before the call, "returned" after it
    callCode,       \* argument code
    callEdits,      \* argument edits
    callRet,        \* the returned object
    \* ---- session history hook ----
    sessionId,      \* the hook's sessionId prop
    snapshots,      \* snapshots state / snapshotsRef.current
    currentIndex,   \* currentIndex state / currentIndexRef.current
    isLoaded,       \* isLoaded state
    db,             \* rows of the remote code_snapshots table
    nextId,         \* next identifier the table hands out
    loads,          \* bag of loadSnapshots calls awaiting their select
    saves,          \* bag of saveSnapshot calls awaiting insert or delete
    lastOp,         \* what the last step of the hook did (observation)
    savesSinceEmpty, \* completed saves in a row since the store was fresh
    \* ---- conversation ledger hook ----
    messages,       \* state.messages
    hasManualEdits, \* state.hasManualEdits
    pendingMessage, \* state.pendingMessage, <<>> when undefined
    lastAiCode,     \* lastAiCodeRef.current
    ledgerOp,       \* which operation of the ledger ran last (observation)
    \* ---- generation route: one POST ----
    routePc,        \* "idle" before the request, "answered" after it
    routeReq,       \* the GenerateRequest body
    routeUp,        \* what the upstream services answer during the request
    routeRes,       \* the Response and the upstream calls that were made
    \* ---- session page ----
    isStreaming,    \* isStreaming state
    prompt,         \* prompt state
    hasGeneratedOnce, \* hasGeneratedOnce state
    generationError,  \* generationError state, <<>> when null
    errorCorrection,  \* errorCorrection state, <<>> when null
    pageCode,       \* code of useAnimationState
    compilationError, \* error of useAnimationState, <<>> when null
    runtimeError,   \* runtimeError state, <<>> when null
    compilePending, \* compileCode was called and has not settled
    attemptNumber,  \* attempt counter of useAutoCorrection
    aiGenerated,    \* markAsAiGenerated / markAsUserEdited of useAutoCorrection
    loopPc,         \* "watching" until useAutoCorrection has looked at the
                    \* outcome of the last turn or compilation, then "settled"
    pendingTrigger, \* the 100 ms timer of onTriggerCorrection, <<>> when none
    turnPc,         \* "idle", or "inflight" while the sidebar awaits the route
    codeChanged,    \* the code changed since compileCode last settled
    sent,           \* generation requests sent in this session
    requests,       \* generation requests since the user last started a turn
    turnOp,         \* what the last step of the page did (observation)
    \* ---- browser-session history hook (useSupabaseHistory) ----
    supaSessionId,  \* sessionId state / sessionIdRef.current, <<>> when null
    supaSnapshots,  \* snapshots state / snapshotsRef.current
    supaIndex,      \* currentIndex state / currentIndexRef.current
    supaSaves,      \* bag of saveSnapshot calls awaiting insert or delete
    supaDb,         \* rows of the code_snapshots table this hook writes to
    supaNextId,     \* next identifier that table hands out
    supaOp          \* what the last step of this hook did (observation)

patchVars == <<patchPc, callCode, callEdits, callRet>>
histVars  == <<sessionId, snapshots, currentIndex, isLoaded, db, nextId,
               loads, saves, lastOp, savesSinceEmpty>>
ledgerVars == <<messages, hasManualEdits, pendingMessage, lastAiCode, ledgerOp>>
routeVars == <<routePc, routeReq, routeUp, routeRes>>
pageVars == <<isStreaming, prompt, hasGeneratedOnce, generationError,
              errorCorrection, pageCode, compilationError, runtimeError,
              compilePending, attemptNumber, aiGenerated, loopPc,
              pendingTrigger, turnPc, codeChanged, sent, requests, turnOp>>
supaVars == <<supaSessionId, supaSnapshots, supaIndex, supaSaves, supaDb,
              supaNextId, supaOp>>
vars      == <<patchPc, callCode, callEdits, callRet,
               sessionId, snapshots, currentIndex, isLoaded, db, nextId,
               loads, saves, lastOp, savesSinceEmpty,
               messages, hasManualEdits, pendingMessage, lastAiCode, ledgerOp,
               routePc, routeReq, routeUp, routeRes,
               isStreaming, prompt, hasGeneratedOnce, generationError,
               errorCorrection, pageCode, compilationError, runtimeError,
               compilePending, attemptNumber, aiGenerated, loopPc,
               pendingTrigger, turnPc, codeChanged, sent, requests, turnOp,
               supaSessionId, supaSnapshots, supaIndex, supaSaves, supaDb,
               supaNextId, supaOp>>

----------------------------------------------------------------------------
(* Bounds and input sets of the patch engine                               *)

MaxCodeLen == 3
MaxEdits   == 2

\* characters that are written by name: line feed, grave accent (U+0060)
NL == "\n"
BQ == "grave"

\* characters of code buffers
CodeChars == {"a", NL}

RECURSIVE StringsUpTo(_, _)
StringsUpTo(chars, n) ==
    IF n = 0 THEN {<<>>}
    ELSE LET shorter == StringsUpTo(chars, n - 1)
         IN  shorter \cup {Append(s, c) : s \in shorter, c \in chars}

Codes == StringsUpTo(CodeChars, MaxCodeLen)

\* search texts: the empty one, single characters, one that overlaps itself
OldStrings == { <<>>, <<"a">>, <<NL>>, <<"a", "a">> }

\* replacement texts: plain ones and ones carrying '$' sequences
NewStrings == { <<>>, <<NL>>, <<"a", "a">>, <<"$", "&">>, <<"$", "$">> }

Descriptions == {"d"}

EditOperations ==
    [description : Descriptions, old_string : OldStrings, new_string : NewStrings]

RECURSIVE ListsUpTo(_, _)
ListsUpTo(S, n) ==
    IF n = 0 THEN {<<>>}
    ELSE LET shorter == ListsUpTo(S, n - 1)
         IN  shorter \cup {Append(l, e) : l \in shorter, e \in S}

EditLists == ListsUpTo(EditOperations, MaxEdits)

----------------------------------------------------------------------------
(* JavaScript string primitives                                            *)

\* s.substring(from, to), 0-based, end exclusive
substring(s, from, to) == SubSeq(s, from + 1, to)

\* does t occur in s starting at 0-based offset p
occursAt(s, t, p) ==
    /\ p >= 0
    /\ p + Len(t) <= Len(s)
    /\ substring(s, p, p + Len(t)) = t

\* s.indexOf(t, from): first 0-based offset >= from where t occurs, or -1
indexOfFrom(s, t, from) ==
    LET hits == {p \in from..Len(s) : occursAt(s, t, p)}
    IN  IF hits = {} THEN -1 ELSE CHOOSE p \in hits : \A q \in hits : p <= q

indexOf(s, t) == indexOfFrom(s, t, 0)

includes(s, t) == indexOf(s, t) # -1

\* s.split(sep).length: an empty separator cuts between code units (and
\* yields no piece at all for the empty string); otherwise the scan is from
\* the left, each match resuming after the end of the previous one
RECURSIVE splitPieces(_, _, _)
splitPieces(s, sep, from) ==
    LET p == indexOfFrom(s, sep, from)
    IN  IF p = -1 THEN 1 ELSE 1 + splitPieces(s, sep, p + Len(sep))

splitLength(s, sep) ==
    IF Len(sep) = 0 THEN Len(s) ELSE splitPieces(s, sep, 0)

\* GetSubstitution of String.prototype.replace with a string pattern (no
\* captures): $$ -> $, $& -> the match, $ + grave accent -> the text before
\* the match, $ + apostrophe -> the text after the match; every other
\* character is copied
RECURSIVE getSubstitution(_, _, _, _)
getSubstitution(matched, str, position, replacement) ==
    IF Len(replacement) = 0 THEN <<>>
    ELSE IF replacement[1] = "$" /\ Len(replacement) >= 2
              /\ replacement[2] \in {"$", "&", BQ, "'"}
         THEN LET rest == getSubstitution(matched, str, position,
                                          SubSeq(replacement, 3, Len(replacement)))
                  sub  == CASE replacement[2] = "$" -> <<"$">>
                            [] replacement[2] = "&" -> matched
                            [] replacement[2] = BQ -> substring(str, 0, position)
                            [] replacement[2] = "'" ->
                                 substring(str, position + Len(matched), Len(str))
              IN  sub \o rest
         ELSE <<replacement[1]>>
              \o getSubstitution(matched, str, position,
                                 SubSeq(replacement, 2, Len(replacement)))

\* s.replace(pattern, replacement) with a string pattern: first match only
replace(s, pattern, replacement) ==
    LET pos == indexOf(s, pattern)
    IN  IF pos = -1 THEN s
        ELSE substring(s, 0, pos)
             \o getSubstitution(pattern, s, pos, replacement)
             \o substring(s, pos + Len(pattern), Len(s))

----------------------------------------------------------------------------
(* Patch engine                                                            *)

\* variant of getLineNumber that counts the line feeds but forgets the + 1
getLineNumberZeroBased(code, searchString) ==
    LET index == indexOf(code, searchString)
    IN  IF index = -1 THEN -1
        ELSE splitLength(substring(code, 0, index), <<NL>>) - 1

\* getLineNumber(code, searchString)
getLineNumber(code, searchString) ==
    LET index == indexOf(code, searchString)
    IN  IF index = -1 THEN -1
        ELSE splitLength(substring(code, 0, index), <<NL>>)

\* the error texts, kept as their parts:
\*   Edit ${i + 1} failed: Could not find the specified text
\*   Edit ${i + 1} failed: Found ${matches} matches. The edit target is ambiguous.
NoError == [kind |-> "none", index |-> 0, matches |-> 0]
notFoundError(i) == [kind |-> "not_found", index |-> i + 1, matches |-> 0]
ambiguousError(i, matches) == [kind |-> "ambiguous", index |-> i + 1, matches |-> matches]

\* the three return statements of applyEdits; absent optional fields are
\* empty sequences
\* variant of the not-found return that hands back the partially patched buffer
notFoundReturnPartial(code, result, edit, i) ==
    [success |-> FALSE, result |-> result, error |-> notFoundError(i),
     enrichedEdits |-> <<>>, failedEdit |-> <<edit>>]

notFoundReturn(code, result, edit, i) ==
    [success |-> FALSE, result |-> code, error |-> notFoundError(i),
     enrichedEdits |-> <<>>, failedEdit |-> <<edit>>]

ambiguousReturn(code, result, edit, i, matches) ==
    [success |-> FALSE, result |-> code, error |-> ambiguousError(i, matches),
     enrichedEdits |-> <<>>, failedEdit |-> <<edit>>]

successReturn(result, enrichedEdits) ==
    [success |-> TRUE, result |-> result, error |-> NoError,
     enrichedEdits |-> enrichedEdits, failedEdit |-> <<>>]

enrichedEdit(edit, lineNumber) ==
    [description |-> edit.description, old_string |-> edit.old_string,
     new_string |-> edit.new_string, lineNumber |-> lineNumber]

\* variant of the loop that matches and patches the pristine input every time
RECURSIVE applyLoopOnOriginal(_, _, _, _, _)
applyLoopOnOriginal(code, edits, i, result, enrichedEdits) ==
    IF i >= Len(edits) THEN successReturn(result, enrichedEdits)
    ELSE LET edit    == edits[i + 1]
             matches == splitLength(code, edit.old_string) - 1
         IN  IF ~includes(code, edit.old_string)
             THEN notFoundReturn(code, result, edit, i)
             ELSE IF matches > 1
             THEN ambiguousReturn(code, result, edit, i, matches)
             ELSE applyLoopOnOriginal(code, edits, i + 1,
                            replace(code, edit.old_string, edit.new_string),
                            Append(enrichedEdits,
                                   enrichedEdit(edit, getLineNumber(code, edit.old_string))))

\* the for loop of applyEdits from iteration i (0-based) on
RECURSIVE applyLoop(_, _, _, _, _)
applyLoop(code, edits, i, result, enrichedEdits) ==
    IF i >= Len(edits) THEN successReturn(result, enrichedEdits)
    ELSE LET edit    == edits[i + 1]
             matches == splitLength(result, edit.old_string) - 1
         IN  IF ~includes(result, edit.old_string)
             THEN notFoundReturn(code, result, edit, i)
             ELSE IF matches > 1
             THEN ambiguousReturn(code, result, edit, i, matches)
             ELSE applyLoop(code, edits, i + 1,
                            replace(result, edit.old_string, edit.new_string),
                            Append(enrichedEdits,
                                   enrichedEdit(edit, getLineNumber(result, edit.old_string))))

applyEdits(code, edits) == applyLoop(code, edits, 0, code, <<>>)

NoReturn == successReturn(<<>>, <<>>)

----------------------------------------------------------------------------
(* Session history hook (useSessionHistory) and the code_snapshots table   *)

MaxRows  == 3     \* rows the table ever hands an identifier to
MaxSaves == 2     \* saveSnapshot calls in flight at once
MaxLoads == 2     \* loadSnapshots calls in flight at once

\* session identifiers the page is opened with (URL parameter, never empty)
Sessions == {"s1", "s2"}

\* code texts that get saved; the empty text is one of them. Where calls
\* overlap the text is payload only and one text is enough
SnapshotCodes == {"", "x"}
OverlapCodes  == {"x"}

\* a row of code_snapshots; prompt, summary and skills ride along unchanged
\* and are left out
snapshotRow(id, sid, code, sequenceNumber) ==
    [id |-> id, session_id |-> sid, code |-> code, sequence_number |-> sequenceNumber]

Min(a, b) == IF a <= b THEN a ELSE b

\* Array.prototype.slice(0, end) and slice(start), 0-based
sliceTo(arr, end) == SubSeq(arr, 1, Min(end, Len(arr)))
sliceFrom(arr, start) == SubSeq(arr, start + 1, Len(arr))

Range(seq) == {seq[i] : i \in 1..Len(seq)}

\* canUndo / canRedo of the returned object
canUndoOf(idx) == idx > 0
canRedoOf(idx, snaps) == idx < Len(snaps) - 1
canUndo == canUndoOf(currentIndex)
canRedo == canRedoOf(currentIndex, snapshots)

\* variant of activeSnapshotsOf that keeps the redo tail
activeSnapshotsKeepTail(current, idx) == current

\* const activeSnapshots = current.slice(0, idx + 1)
activeSnapshotsOf(current, idx) == sliceTo(current, idx + 1)

\* variant of sequenceNumberOf that numbers from 1
sequenceNumberFromOne(activeSnapshots) == Len(activeSnapshots) + 1

\* const sequenceNumber = activeSnapshots.length
sequenceNumberOf(activeSnapshots) == Len(activeSnapshots)

\* variant of idsToDeleteOf that starts at the cursor
idsToDeleteFromCursor(current, idx) == {r.id : r \in Range(sliceFrom(current, idx))}

\* const idsToDelete = current.slice(idx + 1).map((s) => s.id)
idsToDeleteOf(current, idx) == {r.id : r \in Range(sliceFrom(current, idx + 1))}

\* select * where session_id = sid order by sequence_number ascending: every
\* listing of the session's rows in which sequence numbers never decrease
\* (rows with equal numbers come in an order the table chooses)
selectBySession(rows, sid) ==
    LET mine == {r \in rows : r.session_id = sid}
        n    == Cardinality(mine)
    IN  {data \in [1..n -> mine] :
            /\ \A i, j \in 1..n : i # j => data[i] # data[j]
            /\ \A i, j \in 1..n :
                  i < j => data[i].sequence_number <= data[j].sequence_number}

\* bags of pending calls: one more, one fewer, how many
oneMore(bag, call) == bag (+) SetToBag({call})
oneFewer(bag, call) == bag (-) SetToBag({call})
pending(bag) == BagCardinality(bag)

Quiet == pending(loads) = 0 /\ pending(saves) = 0

\* state after the hook is mounted for session sid: the mount effect has set
\* isLoaded to false and started loadSnapshots(sid)
Mounted(sid) ==
    /\ sessionId = sid
    /\ snapshots = <<>>
    /\ currentIndex = -1
    /\ isLoaded = FALSE
    /\ loads = SetToBag({[sid |-> sid]})
    /\ saves = EmptyBag
    /\ lastOp = [op |-> "mount"]
    /\ savesSinceEmpty = 0

HistIdle == Mounted("s1") /\ db = {} /\ nextId = 1

\* the page is opened again for session sid (reload or navigation back): a
\* fresh hook instance over the same table. Taken only when no call of the
\* old instance is pending
Remount(sid) ==
    /\ Quiet
    /\ sessionId' = sid
    /\ snapshots' = <<>>
    /\ currentIndex' = -1
    /\ isLoaded' = FALSE
    /\ loads' = SetToBag({[sid |-> sid]})
    /\ saves' = EmptyBag
    /\ lastOp' = [op |-> "mount"]
    /\ savesSinceEmpty' = 0
    /\ UNCHANGED <<db, nextId>>

\* the sessionId prop changes: the effect on [sessionId] runs
SessionChange(sid) ==
    /\ sid # sessionId
    /\ pending(loads) < MaxLoads
    /\ sessionId' = sid
    /\ isLoaded' = FALSE
    /\ loads' = oneMore(loads, [sid |-> sid])
    /\ lastOp' = [op |-> "sessionChange"]
    /\ savesSinceEmpty' = -1
    /\ UNCHANGED <<snapshots, currentIndex, db, nextId, saves>>

\* the select of loadSnapshots fails (error or no data)
LoadFailed(l) ==
    /\ BagIn(l, loads)
    /\ loads' = oneFewer(loads, l)
    /\ isLoaded' = TRUE
    /\ lastOp' = [op |-> "loadFailed", sid |-> l.sid]
    /\ UNCHANGED <<sessionId, snapshots, currentIndex, db, nextId, saves,
                   savesSinceEmpty>>

\* the select of loadSnapshots answers with data
LoadDone(l) ==
    /\ BagIn(l, loads)
    /\ \E data \in selectBySession(db, l.sid) :
          /\ snapshots' = data
          /\ currentIndex' = IF Len(data) - 1 >= 0 THEN Len(data) - 1
                             ELSE currentIndex
          /\ lastOp' = [op |-> "loadDone", sid |-> l.sid, data |-> data]
          /\ savesSinceEmpty' = IF Len(data) = 0 /\ pending(saves) = 0 THEN 0 ELSE -1
    /\ loads' = oneFewer(loads, l)
    /\ isLoaded' = TRUE
    /\ UNCHANGED <<sessionId, db, nextId, saves>>

\* saveSnapshot up to its first await: the refs are read, the insert is sent
startSave(code) ==
    /\ saves' = oneMore(saves,
          [sid |-> sessionId, current |-> snapshots, idx |-> currentIndex,
           code |-> code, phase |-> "insert", data |-> <<>>])
    /\ lastOp' = [op |-> "saveStart"]
    /\ savesSinceEmpty' = IF pending(saves) = 0 THEN savesSinceEmpty ELSE -1
    /\ UNCHANGED <<sessionId, snapshots, currentIndex, isLoaded, db, nextId, loads>>

\* saveSnapshot is called while the table and the calls in flight have room
SaveStart(code) ==
    /\ pending(saves) < MaxSaves
    /\ nextId + pending(saves) <= MaxRows
    /\ startSave(code)

\* the tail of saveSnapshot: state and refs take activeSnapshots + [data];
\* delete records what became of the delete ("none" when none was sent)
commitSave(s, data, delete) ==
    LET newSnapshots == Append(activeSnapshotsOf(s.current, s.idx), data)
    IN  /\ snapshots' = newSnapshots
        /\ currentIndex' = Len(newSnapshots) - 1
        /\ saves' = oneFewer(saves, s)
        /\ lastOp' = [op |-> "saveDone", save |-> s, data |-> data,
                      delete |-> delete]
        /\ savesSinceEmpty' = IF savesSinceEmpty >= 0 THEN savesSinceEmpty + 1 ELSE -1

\* variant of SaveInsertFailed that drops the redo tail before it returns
SaveInsertFailedTruncates(s) ==
    /\ BagIn(s, saves)
    /\ s.phase = "insert"
    /\ snapshots' = activeSnapshotsOf(s.current, s.idx)
    /\ saves' = oneFewer(saves, s)
    /\ lastOp' = [op |-> "saveFailed", save |-> s]
    /\ UNCHANGED <<sessionId, currentIndex, isLoaded, db, nextId,
                   loads, savesSinceEmpty>>

\* the insert fails (error or no data): the save returns
SaveInsertFailed(s) ==
    /\ BagIn(s, saves)
    /\ s.phase = "insert"
    /\ saves' = oneFewer(saves, s)
    /\ lastOp' = [op |-> "saveFailed", save |-> s]
    /\ UNCHANGED <<sessionId, snapshots, currentIndex, isLoaded, db, nextId,
                   loads, savesSinceEmpty>>

\* the insert succeeds and returns the stored row; with a redo tail the
\* delete is sent and awaited, without one the state is updated at once
SaveInserted(s) ==
    /\ BagIn(s, saves)
    /\ s.phase = "insert"
    /\ LET data == snapshotRow(nextId, s.sid, s.code,
                               sequenceNumberOf(activeSnapshotsOf(s.current, s.idx)))
       IN  /\ db' = db \cup {data}
           /\ nextId' = nextId + 1
           /\ IF s.idx < Len(s.current) - 1
              THEN /\ saves' = oneMore(oneFewer(saves, s),
                                      [s EXCEPT !.phase = "delete", !.data = <<data>>])
                   /\ lastOp' = [op |-> "saveInserted", save |-> s, data |-> data]
                   /\ UNCHANGED <<snapshots, currentIndex, savesSinceEmpty>>
              ELSE commitSave(s, data, "none")
    /\ UNCHANGED <<sessionId, isLoaded, loads>>

\* variant of SaveDeleteAnswered that returns on a failed delete without
\* updating the state
SaveDeleteAnsweredAborts(s, deleted) ==
    /\ BagIn(s, saves)
    /\ s.phase = "delete"
    /\ IF deleted
       THEN /\ db' = {r \in db : r.id \notin idsToDeleteOf(s.current, s.idx)}
            /\ commitSave(s, s.data[1], "done")
       ELSE /\ saves' = oneFewer(saves, s)
            /\ lastOp' = [op |-> "saveDone", save |-> s, data |-> s.data[1],
                          delete |-> "failed"]
            /\ UNCHANGED <<db, snapshots, currentIndex, savesSinceEmpty>>
    /\ UNCHANGED <<sessionId, isLoaded, nextId, loads>>

\* the delete of the truncated rows answers; its outcome is not looked at
SaveDeleteAnswered(s, deleted) ==
    /\ BagIn(s, saves)
    /\ s.phase = "delete"
    /\ db' = IF deleted
             THEN {r \in db : r.id \notin idsToDeleteOf(s.current, s.idx)}
             ELSE db
    /\ commitSave(s, s.data[1], IF deleted THEN "done" ELSE "failed")
    /\ UNCHANGED <<sessionId, isLoaded, nextId, loads>>

\* reading .code of arr[i] (0-based): outside the array the element is
\* undefined and the read throws a TypeError
codeAt(arr, i) ==
    IF i + 1 \in DOMAIN arr THEN [threw |-> FALSE, ret |-> <<arr[i + 1].code>>]
    ELSE [threw |-> TRUE, ret |-> <<>>]

\* undo(): the cursor is moved before the snapshot is read
Undo ==
    /\ IF currentIndex <= 0
       THEN /\ lastOp' = [op |-> "undo", from |-> currentIndex, moved |-> FALSE,
                          threw |-> FALSE, ret |-> <<>>]
            /\ UNCHANGED <<currentIndex, savesSinceEmpty>>
       ELSE /\ currentIndex' = currentIndex - 1
            /\ lastOp' = [op |-> "undo", from |-> currentIndex, moved |-> TRUE,
                          threw |-> codeAt(snapshots, currentIndex - 1).threw,
                          ret |-> codeAt(snapshots, currentIndex - 1).ret]
            /\ savesSinceEmpty' = -1
    /\ UNCHANGED <<sessionId, snapshots, isLoaded, db, nextId, loads, saves>>

\* redo()
Redo ==
    /\ IF currentIndex >= Len(snapshots) - 1
       THEN /\ lastOp' = [op |-> "redo", from |-> currentIndex, moved |-> FALSE,
                          threw |-> FALSE, ret |-> <<>>]
            /\ UNCHANGED <<currentIndex, savesSinceEmpty>>
       ELSE /\ currentIndex' = currentIndex + 1
            /\ lastOp' = [op |-> "redo", from |-> currentIndex, moved |-> TRUE,
                          threw |-> codeAt(snapshots, currentIndex + 1).threw,
                          ret |-> codeAt(snapshots, currentIndex + 1).ret]
            /\ savesSinceEmpty' = -1
    /\ UNCHANGED <<sessionId, snapshots, isLoaded, db, nextId, loads, saves>>

----------------------------------------------------------------------------
(* Browser-session history hook (useSupabaseHistory): saveSnapshot, undo   *)
(* and redo of a hook that has its session identifier                      *)

\* state after the hook is mounted in a browser without a stored session
SupaIdle ==
    /\ supaSessionId = <<>>
    /\ supaSnapshots = <<>>
    /\ supaIndex = -1
    /\ supaSaves = EmptyBag
    /\ supaDb = {}
    /\ supaNextId = 1
    /\ supaOp = [op |-> "mount"]

\* state after createSession has stored the identifier sid and no snapshot
\* has been saved yet
SupaSession(sid) ==
    /\ supaSessionId = <<sid>>
    /\ supaSnapshots = <<>>
    /\ supaIndex = -1
    /\ supaSaves = EmptyBag
    /\ supaDb = {}
    /\ supaNextId = 1
    /\ supaOp = [op |-> "loadDone", sid |-> sid, data |-> <<>>]

\* variant of supaActiveSnapshots that keeps the redo tail
supaActiveSnapshotsKeepTail(current, idx) == current

\* const activeSnapshots = current.slice(0, idx + 1)
supaActiveSnapshots(current, idx) == sliceTo(current, idx + 1)

\* const sequenceNumber = activeSnapshots.length
supaSequenceNumber(activeSnapshots) == Len(activeSnapshots)

\* const idsToDelete = current.slice(idx + 1).map((s) => s.id)
supaIdsToDelete(current, idx) == {r.id : r \in Range(sliceFrom(current, idx + 1))}

\* saveSnapshot with a session identifier in sessionIdRef, up to the await
\* of the insert: the three refs are read, the insert is sent
supaSaveStart(code) ==
    /\ supaSessionId # <<>>
    /\ pending(supaSaves) < MaxSaves
    /\ supaNextId + pending(supaSaves) <= MaxRows
    /\ supaSaves' = oneMore(supaSaves,
          [sid |-> supaSessionId[1], current |-> supaSnapshots, idx |-> supaIndex,
           code |-> code, phase |-> "insert", data |-> <<>>])
    /\ supaOp' = [op |-> "saveStart"]
    /\ UNCHANGED <<supaSessionId, supaSnapshots, supaIndex, supaDb, supaNextId>>

\* the tail of saveSnapshot: state and refs take activeSnapshots + [data]
supaCommitSave(s, data, delete) ==
    LET newSnapshots == Append(supaActiveSnapshots(s.current, s.idx), data)
    IN  /\ supaSnapshots' = newSnapshots
        /\ supaIndex' = Len(newSnapshots) - 1
        /\ supaSaves' = oneFewer(supaSaves, s)
        /\ supaOp' = [op |-> "saveDone", save |-> s, data |-> data,
                      delete |-> delete]

\* the insert fails (error or no data): the save returns
supaSaveInsertFailed(s) ==
    /\ BagIn(s, supaSaves)
    /\ s.phase = "insert"
    /\ supaSaves' = oneFewer(supaSaves, s)
    /\ supaOp' = [op |-> "saveFailed", save |-> s]
    /\ UNCHANGED <<supaSessionId, supaSnapshots, supaIndex, supaDb, supaNextId>>

\* the insert succeeds and returns the stored row; with a redo tail the
\* delete is sent and awaited, without one the state is updated at once
supaSaveInserted(s) ==
    /\ BagIn(s, supaSaves)
    /\ s.phase = "insert"
    /\ LET data == snapshotRow(supaNextId, s.sid, s.code,
                               supaSequenceNumber(supaActiveSnapshots(s.current, s.idx)))
       IN  /\ supaDb' = supaDb \cup {data}
           /\ supaNextId' = supaNextId + 1
           /\ IF s.idx < Len(s.current) - 1
              THEN /\ supaSaves' = oneMore(oneFewer(supaSaves, s),
                                      [s EXCEPT !.phase = "delete", !.data = <<data>>])
                   /\ supaOp' = [op |-> "saveInserted", save |-> s, data |-> data]
                   /\ UNCHANGED <<supaSnapshots, supaIndex>>
              ELSE supaCommitSave(s, data, "none")
    /\ UNCHANGED supaSessionId

\* the delete of the truncated rows answers; its outcome is not looked at
supaSaveDeleteAnswered(s, deleted) ==
    /\ BagIn(s, supaSaves)
    /\ s.phase = "delete"
    /\ supaDb' = IF deleted
                 THEN {r \in supaDb : r.id \notin supaIdsToDelete(s.current, s.idx)}
                 ELSE supaDb
    /\ supaCommitSave(s, s.data[1], IF deleted THEN "done" ELSE "failed")
    /\ UNCHANGED <<supaSessionId, supaNextId>>

\* undo(): index and list are read, then the cursor is moved and the
\* snapshot is read from the list read before
supaUndo ==
    /\ IF supaIndex <= 0
       THEN /\ supaOp' = [op |-> "undo", from |-> supaIndex, moved |-> FALSE,
                          threw |-> FALSE, ret |-> <<>>]
            /\ UNCHANGED supaIndex
       ELSE /\ supaIndex' = supaIndex - 1
            /\ supaOp' = [op |-> "undo", from |-> supaIndex, moved |-> TRUE,
                          threw |-> codeAt(supaSnapshots, supaIndex - 1).threw,
                          ret |-> codeAt(supaSnapshots, supaIndex - 1).ret]
    /\ UNCHANGED <<supaSessionId, supaSnapshots, supaSaves, supaDb, supaNextId>>

\* redo()
supaRedo ==
    /\ IF supaIndex >= Len(supaSnapshots) - 1
       THEN /\ supaOp' = [op |-> "redo", from |-> supaIndex, moved |-> FALSE,
                          threw |-> FALSE, ret |-> <<>>]
            /\ UNCHANGED supaIndex
       ELSE /\ supaIndex' = supaIndex + 1
            /\ supaOp' = [op |-> "redo", from |-> supaIndex, moved |-> TRUE,
                          threw |-> codeAt(supaSnapshots, supaIndex + 1).threw,
                          ret |-> codeAt(supaSnapshots, supaIndex + 1).ret]
    /\ UNCHANGED <<supaSessionId, supaSnapshots, supaSaves, supaDb, supaNextId>>

----------------------------------------------------------------------------
(* The conversation ledger hook useConversationState                       *)
(* An optional value is <<>> when absent and <<v>> when present. Message   *)
(* ids and timestamps (Date.now()) and lastGenerationTimestamp are left    *)
(* out: nothing below reads them.                                          *)

\* most messages the ledger is let grow to when its operations are called
\* in any order
MaxMessages == 3
\* most snapshots handed to initializeFromSnapshots
MaxRestored == 2

\* code texts the assistant produced or the editor holds
LedgerCodes == {<<>>, <<"a">>, <<"b">>}

\* arguments of addUserMessage: content, attachedImages?
UserInputs ==
    {[content |-> "p", attachedImages |-> <<>>],
     [content |-> "q", attachedImages |-> << <<>> >>],
     [content |-> "q", attachedImages |-> << <<"i">> >>],
     [content |-> "p", attachedImages |-> << <<"j">> >>]}

\* AssistantMetadata: the skills of the turn and how the code was made
assistantMetadata(skills, editType) == [skills |-> skills, editType |-> editType]

\* arguments of addAssistantMessage: content, codeSnapshot, metadata?
AssistantInputs ==
    {[content |-> "s", codeSnapshot |-> <<"a">>, metadata |-> <<>>],
     [content |-> "s", codeSnapshot |-> <<>>,
      metadata |-> <<assistantMetadata(<<"a">>, "tool_edit")>>],
     [content |-> "s", codeSnapshot |-> <<"b">>,
      metadata |-> <<assistantMetadata(<<"b", "a">>, "full_replacement")>>],
     [content |-> "t", codeSnapshot |-> <<"a">>,
      metadata |-> <<assistantMetadata(<<"a", "a">>, "tool_edit")>>]}

\* arguments of addErrorMessage: content, errorType
ErrorInputs == [content : {"e"}, errorType : {"edit_failed", "api", "validation"}]

\* arguments of setPendingMessage: skills?
PendingInputs == {<<>>, << <<"a">> >>}

\* the CodeSnapshot rows initializeFromSnapshots is given: one with a prompt
\* and neither summary nor skills, one with summary and skills and no prompt
RestoredSnapshots ==
    {[id |-> 1, prompt |-> "p", summary |-> "", skills |-> <<>>, code |-> <<"a">>],
     [id |-> 2, prompt |-> "", summary |-> "s", skills |-> << <<"a">> >>,
      code |-> <<"b">>]}

RestoredLists == ListsUpTo(RestoredSnapshots, MaxRestored)

\* the three shapes of ConversationMessage
userMessage(content, attachedImages) ==
    [role |-> "user", content |-> content, attachedImages |-> attachedImages,
     codeSnapshot |-> <<>>, metadata |-> <<>>, errorType |-> <<>>]

assistantMessage(content, codeSnapshot, metadata) ==
    [role |-> "assistant", content |-> content, attachedImages |-> <<>>,
     codeSnapshot |-> <<codeSnapshot>>, metadata |-> metadata, errorType |-> <<>>]

errorMessage(content, errorType) ==
    [role |-> "error", content |-> content, attachedImages |-> <<>>,
     codeSnapshot |-> <<>>, metadata |-> <<>>, errorType |-> <<errorType>>]

\* state after useState / useRef
LedgerIdle ==
    /\ messages = <<>>
    /\ hasManualEdits = FALSE
    /\ pendingMessage = <<>>
    /\ lastAiCode = <<>>
    /\ ledgerOp = [op |-> "init"]

addUserMessage(content, attachedImages) ==
    /\ messages' = Append(messages, userMessage(content, attachedImages))
    /\ ledgerOp' = [op |-> "addUserMessage"]
    /\ UNCHANGED <<hasManualEdits, pendingMessage, lastAiCode>>

addAssistantMessage(content, codeSnapshot, metadata) ==
    /\ lastAiCode' = codeSnapshot
    /\ messages' = Append(messages, assistantMessage(content, codeSnapshot, metadata))
    /\ hasManualEdits' = FALSE
    /\ ledgerOp' = [op |-> "addAssistantMessage"]
    /\ UNCHANGED pendingMessage

\* variant of addErrorMessage that overwrites a trailing error message
addErrorMessageOverLast(content, errorType) ==
    /\ messages' =
          IF Len(messages) > 0 /\ messages[Len(messages)].role = "error"
          THEN Append(SubSeq(messages, 1, Len(messages) - 1),
                      errorMessage(content, errorType))
          ELSE Append(messages, errorMessage(content, errorType))
    /\ ledgerOp' = [op |-> "addErrorMessage"]
    /\ UNCHANGED <<hasManualEdits, pendingMessage, lastAiCode>>

addErrorMessage(content, errorType) ==
    /\ messages' = Append(messages, errorMessage(content, errorType))
    /\ ledgerOp' = [op |-> "addErrorMessage"]
    /\ UNCHANGED <<hasManualEdits, pendingMessage, lastAiCode>>

markManualEdit(currentCode) ==
    /\ hasManualEdits' =
          IF currentCode # lastAiCode /\ lastAiCode # <<>> THEN TRUE
          ELSE hasManualEdits
    /\ ledgerOp' = [op |-> "markManualEdit", currentCode |-> currentCode]
    /\ UNCHANGED <<messages, pendingMessage, lastAiCode>>

clearConversation ==
    /\ lastAiCode' = <<>>
    /\ messages' = <<>>
    /\ hasManualEdits' = FALSE
    /\ pendingMessage' = <<>>
    /\ ledgerOp' = [op |-> "clearConversation"]

\* the messages initializeFromSnapshots pushes for one snapshot
restoredMessagesOf(snapshot) ==
    (IF snapshot.prompt # ""
     THEN <<userMessage(snapshot.prompt, <<>>)>>
     ELSE <<>>)
    \o <<assistantMessage(
            IF snapshot.summary # "" THEN snapshot.summary ELSE "Generated animation",
            snapshot.code,
            <<assistantMetadata(
                 IF snapshot.skills # <<>> THEN snapshot.skills[1] ELSE <<>>,
                 "full_replacement")>>)>>

\* the loop over the snapshots
RECURSIVE restoredMessages(_)
restoredMessages(snaps) ==
    IF snaps = <<>> THEN <<>>
    ELSE restoredMessagesOf(Head(snaps)) \o restoredMessages(Tail(snaps))

\* lastAiCodeRef is assigned only when there is a last snapshot
initializeFromSnapshots(snaps) ==
    /\ Len(restoredMessages(snaps)) <= MaxMessages
    /\ lastAiCode' = IF Len(snaps) > 0 THEN snaps[Len(snaps)].code ELSE lastAiCode
    /\ messages' = restoredMessages(snaps)
    /\ hasManualEdits' = FALSE
    /\ pendingMessage' = <<>>
    /\ ledgerOp' = [op |-> "initializeFromSnapshots"]

setPendingMessage(skills) ==
    /\ pendingMessage' = <<[skills |-> skills]>>
    /\ ledgerOp' = [op |-> "setPendingMessage"]
    /\ UNCHANGED <<messages, hasManualEdits, lastAiCode>>

clearPendingMessage ==
    /\ pendingMessage' = <<>>
    /\ ledgerOp' = [op |-> "clearPendingMessage"]
    /\ UNCHANGED <<messages, hasManualEdits, lastAiCode>>

\* the filter of getFullContext
inContext(m) == m.role = "user" \/ m.role = "assistant"

\* variant of contextEntry that passes every content through
contextEntryVerbatim(m) ==
    [role |-> m.role,
     content |-> m.content,
     attachedImages |->
        IF m.role = "user" /\ m.attachedImages # <<>> /\ Len(m.attachedImages[1]) > 0
        THEN m.attachedImages ELSE <<>>]

\* the map of getFullContext
contextEntry(m) ==
    [role |-> m.role,
     content |-> IF m.role = "user" THEN m.content ELSE "[Generated Code]",
     attachedImages |->
        IF m.role = "user" /\ m.attachedImages # <<>> /\ Len(m.attachedImages[1]) > 0
        THEN m.attachedImages ELSE <<>>]

getFullContext(msgs) ==
    LET kept == SelectSeq(msgs, inContext)
    IN  [k \in 1..Len(kept) |-> contextEntry(kept[k])]

\* Set.prototype.add for each element of skills, in order; the set keeps
\* insertion order
RECURSIVE addAll(_, _)
addAll(allSkills, skills) ==
    IF skills = <<>> THEN allSkills
    ELSE addAll(IF Head(skills) \in Range(allSkills) THEN allSkills
                ELSE Append(allSkills, Head(skills)),
                Tail(skills))

\* the forEach of getPreviouslyUsedSkills over msgs[i..]
RECURSIVE usedSkillsFrom(_, _, _)
usedSkillsFrom(msgs, i, allSkills) ==
    IF i > Len(msgs) THEN allSkills
    ELSE usedSkillsFrom(msgs, i + 1,
            IF msgs[i].role = "assistant" /\ msgs[i].metadata # <<>>
            THEN addAll(allSkills, msgs[i].metadata[1].skills)
            ELSE allSkills)

\* variant of getPreviouslyUsedSkills that reports the latest assistant
\* turn's skills only
RECURSIVE skillsOfLatestTurn(_)
skillsOfLatestTurn(msgs) ==
    IF msgs = <<>> THEN <<>>
    ELSE IF msgs[Len(msgs)].role = "assistant" /\ msgs[Len(msgs)].metadata # <<>>
         THEN addAll(<<>>, msgs[Len(msgs)].metadata[1].skills)
         ELSE skillsOfLatestTurn(SubSeq(msgs, 1, Len(msgs) - 1))

getPreviouslyUsedSkills(msgs) == usedSkillsFrom(msgs, 1, <<>>)

\* variant of lastImagesFrom that stops at the latest user message whatever
\* it carries
RECURSIVE lastUserMessageImages(_, _)
lastUserMessageImages(msgs, i) ==
    IF i < 1 THEN <<>>
    ELSE IF msgs[i].role = "user"
         THEN (IF msgs[i].attachedImages # <<>> /\ Len(msgs[i].attachedImages[1]) > 0
               THEN msgs[i].attachedImages ELSE <<>>)
         ELSE lastUserMessageImages(msgs, i - 1)

\* variant of getLastUserAttachedImages that looks at the latest user
\* message only
attachmentsOfLatestUserMessage(msgs) == lastUserMessageImages(msgs, Len(msgs))

\* the loop of getLastUserAttachedImages from index i (1-based) down
RECURSIVE lastImagesFrom(_, _)
lastImagesFrom(msgs, i) ==
    IF i < 1 THEN <<>>
    ELSE IF /\ msgs[i].role = "user"
            /\ msgs[i].attachedImages # <<>>
            /\ Len(msgs[i].attachedImages[1]) > 0
         THEN msgs[i].attachedImages
         ELSE lastImagesFrom(msgs, i - 1)

getLastUserAttachedImages(msgs) == lastImagesFrom(msgs, Len(msgs))

isFirstGeneration == Len(messages) = 0

----------------------------------------------------------------------------
(* The generation route  POST                                              *)

\* values of currentCode in a request: none, one match of "a", two matches
RouteCodes == {<<>>, <<"a">>, <<"a", "a">>, <<"a", "b">>}

\* edits of a decision: one that finds "a", one that finds "b", one that
\* finds nothing in any RouteCodes text
editAB == [description |-> "d", old_string |-> <<"a">>, new_string |-> <<"b">>]
editB  == [description |-> "d", old_string |-> <<"b">>, new_string |-> <<>>]
editC  == [description |-> "d", old_string |-> <<"c">>, new_string |-> <<"a">>]

RouteEditLists ==
    {<<>>, <<editAB>>, <<editC>>, <<editAB, editB>>, <<editB, editAB>>, <<editB, editC>>}

\* objects that satisfy FollowUpResponseSchema: edits and code are nullable
\* and have no minimum length; null is the empty sequence, a value is wrapped
FollowUpResponses ==
    [type : {"edit", "full"},
     edits : {<<>>} \cup {<<l>> : l \in RouteEditLists},
     code : {<<>>, << <<>> >>, << <<"b">> >>}]

\* the request fields the branches of POST read
GenerateRequests ==
    [prompt : {"p"},
     isFollowUp : BOOLEAN,
     currentCode : {<<>>} \cup {<<c>> : c \in RouteCodes},
     errorCorrection : {<<>>},
     frameImages : {<<>>},
     conversationHistory : {<<>>}]

\* what the environment and the upstream models answer:
\*   apiKey      whether OPENAI_API_KEY is set
\*   validation  the validation call: its verdict, or "error" when it fails
\*   skills      the skills the detection call returns
\*   decisionThrew, decision   the follow-up generateObject call
\*   streamThrew, streamCode   the streamText call and the text it streams,
\*                             one chunk for each character
\*   streamBody  whether the Response of toUIMessageStreamResponse has a body
Upstreams ==
    [apiKey : BOOLEAN,
     validation : {"valid", "invalid", "error"},
     skills : {<<>>, <<"s">>},
     decisionThrew : BOOLEAN,
     decision : FollowUpResponses,
     streamThrew : BOOLEAN,
     streamCode : {<<"a">>, <<"a", "b">>},
     streamBody : BOOLEAN]

\* JavaScript truthiness of an optional string and of an optional array
truthyString(opt) == opt # <<>> /\ opt[1] # <<>>
truthyArray(opt) == opt # <<>>

\* the Response objects of POST; absent JSON fields are empty sequences
errorResponse(status, error, type, patchError, failedEdit, calls) ==
    [status |-> status, error |-> error, type |-> type,
     patchError |-> patchError, failedEdit |-> failedEdit,
     code |-> <<>>, editType |-> <<>>, edits |-> <<>>, skills |-> <<>>,
     streamed |-> FALSE, events |-> <<>>, context |-> <<>>, calls |-> calls]

jsonResponse(code, skills, editType, edits, calls) ==
    [status |-> 200, error |-> "none", type |-> <<>>,
     patchError |-> NoError, failedEdit |-> <<>>,
     code |-> <<code>>, editType |-> <<editType>>, edits |-> edits,
     skills |-> skills, streamed |-> FALSE, events |-> <<>>, context |-> <<>>,
     calls |-> calls]

\* a streamed Response: events is what the body delivers, in order; code and
\* skills are what a reader of the body collects from it
streamResponse(code, skills, events, calls) ==
    [status |-> 200, error |-> "none", type |-> <<>>,
     patchError |-> NoError, failedEdit |-> <<>>,
     code |-> <<code>>, editType |-> <<>>, edits |-> <<>>,
     skills |-> skills, streamed |-> TRUE, events |-> events, context |-> <<>>,
     calls |-> calls]

\* `data: ${JSON.stringify({ type: "metadata", skills: detectedSkills, ... })}`
metadataEvent(skills) == [type |-> "metadata", skills |-> skills, text |-> <<>>]

\* the chunks the body of the original Response delivers
textChunk(c) == [type |-> "text", skills |-> <<>>, text |-> <<c>>]
originalBody(streamCode) == [i \in 1..Len(streamCode) |-> textChunk(streamCode[i])]

\* the while (true) loop of start(controller): every value read from the
\* original body is enqueued, in order
RECURSIVE pipeThrough(_, _)
pipeThrough(body, enqueued) ==
    IF body = <<>> THEN enqueued
    ELSE pipeThrough(Tail(body), Append(enqueued, Head(body)))

\* variant of start(controller) that enqueues the metadata event after the
\* original stream
startMetadataLast(skills, body) ==
    Append(pipeThrough(body, <<>>), metadataEvent(skills))

\* start(controller): the metadata event is enqueued, then the original
\* stream is piped through, then the stream is closed
start(skills, body) == pipeThrough(body, <<metadataEvent(skills)>>)

NoResponse == errorResponse(0, "none", <<>>, NoError, <<>>, {})

\* the upstream calls of the Promise.allSettled block
parallelCalls(req) ==
    IF req.isFollowUp THEN {"detectSkills"} ELSE {"validate", "detectSkills"}

\* variant of the decision handling that answers an edit decision without
\* patching: it returns the decision's code
decisionHandlingReplaces(currentCode, response, skills, calls) ==
    IF response.type = "edit" /\ truthyArray(response.edits)
    THEN jsonResponse(IF response.code = <<>> THEN <<>> ELSE response.code[1],
                      skills, "full_replacement", <<>>, calls)
    ELSE IF response.type = "full" /\ truthyString(response.code)
    THEN jsonResponse(response.code[1], skills, "full_replacement", <<>>, calls)
    ELSE errorResponse(400, "invalid_response", <<"edit_failed">>, NoError, <<>>,
                       calls)

\* the if / else-if / else over the decision of a follow-up turn
decisionHandling(currentCode, response, skills, calls) ==
    IF response.type = "edit" /\ truthyArray(response.edits)
    THEN LET result == applyEdits(currentCode, response.edits[1])
         IN  IF ~result.success
             THEN errorResponse(400, "patch", <<"edit_failed">>, result.error,
                                result.failedEdit, calls \cup {"applyEdits"})
             ELSE jsonResponse(result.result, skills, "tool_edit",
                               <<result.enrichedEdits>>, calls \cup {"applyEdits"})
    ELSE IF response.type = "full" /\ truthyString(response.code)
    THEN jsonResponse(response.code[1], skills, "full_replacement", <<>>, calls)
    ELSE errorResponse(400, "invalid_response", <<"edit_failed">>, NoError, <<>>,
                       calls)

\* Array.prototype.slice(-n) for n > 0: the last n elements, all of them
\* when there are fewer
sliceLast(arr, n) ==
    LET from == IF Len(arr) - n < 0 THEN 0 ELSE Len(arr) - n
    IN  SubSeq(arr, from + 1, Len(arr))

\* entries of the conversation history that go into the edit request
contextWindow == 6

\* variant of contextMessages that takes the whole history
contextMessagesAll(conversationHistory) == conversationHistory

\* const contextMessages = conversationHistory.slice(-6)
contextMessages(conversationHistory) == sliceLast(conversationHistory, contextWindow)

\* the try block of the follow-up mode; context is the part of the
\* conversation history that the edit request is built from
followUpMode(req, up, calls) ==
    LET res == IF up.decisionThrew
               THEN errorResponse(500, "edit_request", <<>>, NoError, <<>>,
                                  calls \cup {"decide"})
               ELSE decisionHandling(req.currentCode[1], up.decision, up.skills,
                                     calls \cup {"decide"})
    IN  [res EXCEPT !.context = contextMessages(req.conversationHistory)]

\* the try block of the initial generation
initialGeneration(req, up, calls) ==
    IF up.streamThrew
    THEN errorResponse(500, "openai", <<>>, NoError, <<>>, calls \cup {"streamText"})
    ELSE IF ~up.streamBody
    THEN streamResponse(<<>>, <<>>, <<>>, calls \cup {"streamText"})
    ELSE streamResponse(up.streamCode, up.skills,
                        start(up.skills, originalBody(up.streamCode)),
                        calls \cup {"streamText"})

\* variant of the follow-up guard that looks at isFollowUp alone
entersFollowUpModeByFlag(req) == req.isFollowUp

\* the guard of the follow-up mode
entersFollowUpMode(req) == req.isFollowUp /\ truthyString(req.currentCode)

\* variant of the validation gate that also judges follow-up turns
rejectedByValidationAlways(req, up) == up.validation = "invalid"

\* the validation gate: only a fulfilled verdict of a first turn can reject
rejectedByValidation(req, up) == ~req.isFollowUp /\ up.validation = "invalid"

POST(req, up) ==
    IF ~up.apiKey
    THEN errorResponse(400, "api_key", <<>>, NoError, <<>>, {})
    ELSE IF rejectedByValidation(req, up)
    THEN errorResponse(400, "validation", <<"validation">>, NoError, <<>>,
                       parallelCalls(req))
    ELSE IF entersFollowUpMode(req)
    THEN followUpMode(req, up, parallelCalls(req))
    ELSE initialGeneration(req, up, parallelCalls(req))

RouteIdle ==
    /\ routePc = "idle"
    /\ routeReq = [prompt |-> "p", isFollowUp |-> FALSE, currentCode |-> <<>>,
                   errorCorrection |-> <<>>, frameImages |-> <<>>,
                   conversationHistory |-> <<>>]
    /\ routeUp = CHOOSE up \in Upstreams : TRUE
    /\ routeRes = NoResponse

(* The session page: one turn at a time, with automatic corrective turns   *)

\* generation requests of a session, the automatic ones included
MaxRequests == 4

\* variant of MAX_CORRECTION_ATTEMPTS with one more attempt
oneMoreAttempt == 3 + 1

MAX_CORRECTION_ATTEMPTS == 3

\* what the user sends: a prompt alone, a prompt with an image
TurnUserInputs ==
    {[content |-> "p", attachedImages |-> <<>>],
     [content |-> "q", attachedImages |-> << <<"i">> >>]}

\* code the user types into the editor: a text with two matches of "a" and
\* one of "b"
EditorCodes == {<<"a", "b", "a">>}

\* an upstream that has its key and whose calls do not throw
upstream(validation, decision) ==
    [apiKey |-> TRUE, validation |-> validation, skills |-> <<"s">>,
     decisionThrew |-> FALSE, decision |-> decision,
     streamThrew |-> FALSE, streamCode |-> <<"a">>, streamBody |-> TRUE]

decision(type, edits, text) == [type |-> type, edits |-> edits, code |-> text]

\* upstream behaviours of a turn: the prompt is judged valid and the
\* decision is an edit of "a" or an edit of "b", or the prompt is judged
\* invalid and the decision is a full replacement
TurnUpstreams ==
    {upstream("valid", decision("edit", << <<editAB>> >>, <<>>)),
     upstream("valid", decision("edit", << <<editB>> >>, <<>>)),
     upstream("invalid", decision("full", <<>>, << <<"b">> >>))}

\* outcomes of compiling and running a code buffer; "same" is the outcome
\* of compiling a buffer again that has not changed
CompileOutcomes == {"ok", "compilation", "runtime", "same"}

\* state after the first render of the page
PageIdle ==
    /\ isStreaming = FALSE
    /\ prompt = ""
    /\ hasGeneratedOnce = FALSE
    /\ generationError = <<>>
    /\ errorCorrection = <<>>
    /\ pageCode = <<>>
    /\ compilationError = <<>>
    /\ runtimeError = <<>>
    /\ compilePending = FALSE
    /\ attemptNumber = 1
    /\ aiGenerated = FALSE
    /\ loopPc = "settled"
    /\ pendingTrigger = <<>>
    /\ turnPc = "idle"
    /\ codeChanged = FALSE
    /\ sent = 0
    /\ requests = 0
    /\ turnOp = [op |-> "init"]

\* const codeError = compilationError || runtimeError
codeError == IF compilationError # <<>> THEN compilationError ELSE runtimeError

\* variant of handleStreamingChange that keeps the correction context
handleStreamingChangeKeepsContext(streaming) ==
    /\ isStreaming' = streaming
    /\ IF streaming
       THEN /\ generationError' = <<>>
            /\ runtimeError' = <<>>
            /\ errorCorrection' = errorCorrection
       ELSE TRUE

\* handleStreamingChange; when streaming is false the three states it
\* clears otherwise are left to the other handlers of the step
handleStreamingChange(streaming) ==
    /\ isStreaming' = streaming
    /\ IF streaming
       THEN /\ generationError' = <<>>
            /\ runtimeError' = <<>>
            /\ errorCorrection' = <<>>
       ELSE TRUE

\* the effect on [isStreaming] when streaming has ended:
\* markAsAiGenerated(); compileCode(codeRef.current)
streamingEnded ==
    /\ aiGenerated' = TRUE
    /\ compilePending' = TRUE

\* variant of handleError that drops the failed edit
handleErrorWithoutEdit(message, type, failedEdit) ==
    generationError' = <<[message |-> message, type |-> type, failedEdit |-> <<>>]>>

handleError(message, type, failedEdit) ==
    generationError' = <<[message |-> message, type |-> type,
                          failedEdit |-> failedEdit]>>

handleRuntimeError(message) == runtimeError' = <<message>>

handleMessageSent(promptText, attachedImages) ==
    addUserMessage(promptText, attachedImages)

\* handleGenerationComplete: the assistant message, markAsAiGenerated, and
\* saveSnapshot up to its first await
handleGenerationComplete(generatedCode, summary, metadata) ==
    /\ addAssistantMessage(IF summary # "" THEN summary ELSE "Generated",
                           generatedCode, metadata)
    /\ aiGenerated' = TRUE
    /\ startSave(generatedCode)

\* handleCodeChange while isStreamingRef.current is true: the code is set
\* and nothing else
handleCodeChangeStreaming(newCode) ==
    /\ pageCode' = newCode
    /\ hasGeneratedOnce' = TRUE
    /\ codeChanged' = (codeChanged \/ newCode # pageCode)

\* handleCodeChange while isStreamingRef.current is false: the ledger and
\* the correction hook are told of a manual edit, the debounced compilation
\* is armed
handleCodeChange(newCode) ==
    /\ pageCode' = newCode
    /\ hasGeneratedOnce' = TRUE
    /\ codeChanged' = (codeChanged \/ newCode # pageCode)
    /\ markManualEdit(newCode)
    /\ aiGenerated' = FALSE
    /\ compilePending' = TRUE

\* onTriggerCorrection: the context and the prompt are set, the images are
\* read from the ledger now, the timer is armed
onTriggerCorrection(correctionPrompt, context) ==
    /\ errorCorrection' = <<context>>
    /\ prompt' = correctionPrompt
    /\ pendingTrigger' =
          <<[silent |-> TRUE,
             attachedImages |-> getLastUserAttachedImages(messages)]>>

onClearErrorCorrection == errorCorrection' = <<>>

\* ---- the chat sidebar ----

\* the request body the sidebar builds from its props
buildRequest(promptText, attachedImages) ==
    [prompt |-> promptText,
     isFollowUp |-> ~isFirstGeneration,
     currentCode |-> <<pageCode>>,
     errorCorrection |-> errorCorrection,
     frameImages |-> attachedImages,
     conversationHistory |-> getFullContext(messages)]

\* the error type the sidebar reports for a failed response
reportedType(res) == IF res.type = <<>> THEN "api" ELSE res.type[1]

\* the metadata the sidebar hands to onGenerationComplete: that of the JSON
\* answer of a follow-up turn, or full_replacement with the skills of the
\* metadata event for a streamed first generation
completedMetadata(res) ==
    assistantMetadata(res.skills,
                      IF res.streamed THEN "full_replacement" ELSE res.editType[1])

\* the sidebar sends a request: the route has not answered yet
send(request) ==
    /\ sent < MaxRequests
    /\ sent' = sent + 1
    /\ routeReq' = request
    /\ routeRes' = NoResponse
    /\ routePc' = "idle"
    /\ turnPc' = "inflight"
    /\ UNCHANGED routeUp

\* the user submits a prompt from the sidebar; submission is open when no
\* turn is in flight or scheduled
UserSubmit(u) ==
    /\ turnPc = "idle"
    /\ ~isStreaming
    /\ pendingTrigger = <<>>
    /\ send(buildRequest(u.content, u.attachedImages))
    /\ handleMessageSent(u.content, u.attachedImages)
    /\ handleStreamingChange(TRUE)
    /\ prompt' = u.content
    /\ attemptNumber' = 1
    /\ loopPc' = "settled"
    /\ requests' = 1
    /\ turnOp' = [op |-> "submit", silent |-> FALSE]
    /\ UNCHANGED <<hasGeneratedOnce, pageCode, compilationError, compilePending,
                   aiGenerated, pendingTrigger, codeChanged>>
    /\ UNCHANGED histVars

\* the timer of onTriggerCorrection fires:
\* triggerGeneration({ silent: true, attachedImages: lastImages })
TimerFires ==
    /\ pendingTrigger # <<>>
    /\ turnPc = "idle"
    /\ send(buildRequest(prompt, pendingTrigger[1].attachedImages))
    /\ handleStreamingChange(TRUE)
    /\ pendingTrigger' = <<>>
    /\ requests' = requests + 1
    /\ turnOp' = [op |-> "submit", silent |-> TRUE]
    /\ UNCHANGED <<prompt, hasGeneratedOnce, pageCode, compilationError,
                   compilePending, attemptNumber, aiGenerated, loopPc, codeChanged>>
    /\ UNCHANGED histVars
    /\ UNCHANGED ledgerVars

\* the route answers the request in flight and the sidebar reports it
Respond(up) ==
    /\ turnPc = "inflight"
    /\ LET res == POST(routeReq, up)
       IN  /\ routeRes' = res
           /\ routeUp' = up
           /\ IF res.status # 200
              THEN /\ handleError(res.error, reportedType(res), res.failedEdit)
                   /\ addErrorMessage(res.error, reportedType(res))
                   /\ UNCHANGED <<pageCode, hasGeneratedOnce, codeChanged>>
                   /\ UNCHANGED histVars
              ELSE /\ handleCodeChangeStreaming(res.code[1])
                   /\ handleGenerationComplete(res.code[1], "s", <<completedMetadata(res)>>)
                   /\ UNCHANGED generationError
           /\ turnOp' = [op |-> "respond", status |-> res.status]
    /\ routePc' = "answered"
    /\ turnPc' = "idle"
    /\ handleStreamingChange(FALSE)
    /\ streamingEnded
    /\ loopPc' = "watching"
    /\ UNCHANGED <<routeReq, prompt, errorCorrection, compilationError,
                   runtimeError, attemptNumber, pendingTrigger, sent, requests>>

\* the user types into the code editor
UserEditsCode(newCode) ==
    /\ ~isStreaming
    /\ turnPc = "idle"
    /\ pendingTrigger = <<>>
    /\ ~compilePending
    /\ newCode # pageCode
    /\ handleCodeChange(newCode)
    /\ turnOp' = [op |-> "edit"]
    /\ UNCHANGED <<isStreaming, prompt, generationError, errorCorrection,
                   compilationError, runtimeError, attemptNumber, loopPc,
                   pendingTrigger, turnPc, sent, requests>>
    /\ UNCHANGED histVars
    /\ UNCHANGED routeVars

\* ---- compilation and preview ----

\* compileCode settles and the player runs the result: the code compiles and
\* runs, fails to compile, or reports a runtime error (the player has no
\* component to run while a generation error is shown)
CompileCode(outcome) ==
    /\ compilePending
    /\ ~isStreaming
    /\ outcome = "runtime" => generationError = <<>>
    /\ (outcome = "same") = ~codeChanged
    /\ compilePending' = FALSE
    /\ codeChanged' = FALSE
    /\ compilationError' = IF outcome = "compilation" THEN <<"c">>
                           ELSE IF outcome = "same" THEN compilationError
                           ELSE <<>>
    /\ IF outcome = "runtime" THEN handleRuntimeError("r") ELSE UNCHANGED runtimeError
    /\ loopPc' = "watching"
    /\ turnOp' = [op |-> "compile", outcome |-> outcome]
    /\ UNCHANGED <<isStreaming, prompt, hasGeneratedOnce, generationError,
                   errorCorrection, pageCode, attemptNumber, aiGenerated,
                   pendingTrigger, turnPc, sent, requests>>
    /\ UNCHANGED histVars
    /\ UNCHANGED ledgerVars
    /\ UNCHANGED routeVars

\* ---- the self-correction loop ----

\* a patch failure reported by the last turn
patchFailure == generationError # <<>> /\ generationError[1].type = "edit_failed"

\* a compilation or runtime failure of code the assistant made
codeFailure ==
    generationError = <<>> /\ codeError # <<>> /\ hasGeneratedOnce /\ aiGenerated

qualifyingFailure == patchFailure \/ codeFailure

\* code of the assistant compiled and ran
succeeded ==
    generationError = <<>> /\ codeError = <<>> /\ hasGeneratedOnce /\ aiGenerated

\* the ErrorCorrectionContext of the next attempt; the failed edit is there
\* for patch failures only
correctionContext ==
    [error |-> IF patchFailure THEN generationError[1].message ELSE codeError[1],
     attemptNumber |-> attemptNumber + 1,
     maxAttempts |-> MAX_CORRECTION_ATTEMPTS,
     failedEdit |-> IF patchFailure THEN generationError[1].failedEdit ELSE <<>>]

\* the corrective instruction: one template for patch failures, one for
\* compilation and runtime failures
correctionPrompt == IF patchFailure THEN "fix_edit" ELSE "fix_code"

\* variant of retryAllowed that never gives up
retryAlways == TRUE

retryAllowed == attemptNumber < MAX_CORRECTION_ATTEMPTS

\* variant of nextAttempt that does not count
nextAttemptSame == attemptNumber

nextAttempt == attemptNumber + 1

\* the loop looks at a settled turn: a qualifying failure with attempts left
\* schedules the next attempt, a success clears the context and the
\* counter, anything else is left as it is
LoopReacts ==
    /\ loopPc = "watching"
    /\ ~isStreaming
    /\ ~compilePending
    /\ turnPc = "idle"
    /\ pendingTrigger = <<>>
    /\ loopPc' = "settled"
    /\ IF qualifyingFailure /\ retryAllowed
       THEN /\ onTriggerCorrection(correctionPrompt, correctionContext)
            /\ attemptNumber' = nextAttempt
            /\ turnOp' = [op |-> "loop", did |-> "retry"]
       ELSE IF succeeded
       THEN /\ onClearErrorCorrection
            /\ attemptNumber' = 1
            /\ turnOp' = [op |-> "loop", did |-> "reset"]
            /\ UNCHANGED <<prompt, pendingTrigger>>
       ELSE /\ turnOp' = [op |-> "loop", did |-> "nothing"]
            /\ UNCHANGED <<errorCorrection, prompt, pendingTrigger, attemptNumber>>
    /\ UNCHANGED <<isStreaming, hasGeneratedOnce, generationError, pageCode,
                   compilationError, runtimeError, compilePending, aiGenerated,
                   turnPc, codeChanged, sent, requests>>
    /\ UNCHANGED histVars
    /\ UNCHANGED ledgerVars
    /\ UNCHANGED routeVars

PatchIdle ==
    /\ patchPc = "idle"
    /\ callCode = <<>>
    /\ callEdits = <<>>
    /\ callRet = NoReturn

----------------------------------------------------------------------------
(* Specification of the patch engine: one call on any input                *)

InitPatch ==
    PatchIdle /\ HistIdle /\ LedgerIdle /\ RouteIdle /\ PageIdle /\ SupaIdle

CallApplyEdits ==
    /\ patchPc = "idle"
    /\ \E code \in Codes, edits \in EditLists :
          /\ callCode' = code
          /\ callEdits' = edits
          /\ callRet' = applyEdits(code, edits)
    /\ patchPc' = "returned"
    /\ UNCHANGED histVars
    /\ UNCHANGED ledgerVars
    /\ UNCHANGED routeVars
    /\ UNCHANGED pageVars
    /\ UNCHANGED supaVars

NextPatch == CallApplyEdits

SpecPatch == InitPatch /\ [][NextPatch]_vars

----------------------------------------------------------------------------
(* Specifications of the history hook                                      *)

\* the page is opened for some session over an empty table
InitHistory ==
    /\ PatchIdle
    /\ LedgerIdle
    /\ RouteIdle
    /\ PageIdle
    /\ SupaIdle
    /\ \E sid \in Sessions : Mounted(sid)
    /\ db = {}
    /\ nextId = 1

\* steps that answer a pending remote call
Answer ==
    \/ \E l \in BagToSet(loads) : LoadDone(l)
    \/ \E l \in BagToSet(loads) : LoadFailed(l)
    \/ \E s \in BagToSet(saves) : SaveInserted(s)
    \/ \E s \in BagToSet(saves) : SaveInsertFailed(s)
    \/ \E s \in BagToSet(saves), deleted \in BOOLEAN : SaveDeleteAnswered(s, deleted)

\* steps that call into the hook
Call(codes) ==
    \/ \E sid \in Sessions : SessionChange(sid)
    \/ \E sid \in Sessions : Remount(sid)
    \/ \E code \in codes : SaveStart(code)
    \/ Undo
    \/ Redo

\* calls may arrive while remote calls are pending
NextHistory ==
    /\ Answer \/ Call(OverlapCodes)
    /\ UNCHANGED patchVars
    /\ UNCHANGED ledgerVars
    /\ UNCHANGED routeVars
    /\ UNCHANGED pageVars
    /\ UNCHANGED supaVars

SpecHistory == InitHistory /\ [][NextHistory]_vars

\* one operation at a time: a call is made only when nothing is pending
NextHistorySeq ==
    /\ Answer \/ (Quiet /\ Call(SnapshotCodes))
    /\ UNCHANGED patchVars
    /\ UNCHANGED ledgerVars
    /\ UNCHANGED routeVars
    /\ UNCHANGED pageVars
    /\ UNCHANGED supaVars

SpecHistorySeq == InitHistory /\ [][NextHistorySeq]_vars

\* one operation at a time on one session: the page is only ever opened
\* for the session it was first opened with
NextOneSession ==
    /\ \/ Answer
       \/ Remount(sessionId)
       \/ Quiet /\ \E code \in SnapshotCodes : SaveStart(code)
       \/ Quiet /\ Undo
       \/ Quiet /\ Redo
    /\ UNCHANGED patchVars
    /\ UNCHANGED ledgerVars
    /\ UNCHANGED routeVars
    /\ UNCHANGED pageVars
    /\ UNCHANGED supaVars

SpecOneSession == InitHistory /\ [][NextOneSession]_vars

----------------------------------------------------------------------------
(* Specification of the conversation ledger: any operation at any time    *)

InitLedger ==
    PatchIdle /\ HistIdle /\ LedgerIdle /\ RouteIdle /\ PageIdle /\ SupaIdle

NextLedger ==
    /\ \/ /\ Len(messages) < MaxMessages
          /\ \E u \in UserInputs : addUserMessage(u.content, u.attachedImages)
       \/ /\ Len(messages) < MaxMessages
          /\ \E a \in AssistantInputs :
                addAssistantMessage(a.content, a.codeSnapshot, a.metadata)
       \/ /\ Len(messages) < MaxMessages
          /\ \E e \in ErrorInputs : addErrorMessage(e.content, e.errorType)
       \/ \E currentCode \in LedgerCodes : markManualEdit(currentCode)
       \/ clearConversation
       \/ \E snaps \in RestoredLists : initializeFromSnapshots(snaps)
       \/ \E skills \in PendingInputs : setPendingMessage(skills)
       \/ clearPendingMessage
    /\ UNCHANGED patchVars
    /\ UNCHANGED histVars
    /\ UNCHANGED routeVars
    /\ UNCHANGED pageVars
    /\ UNCHANGED supaVars

SpecLedger == InitLedger /\ [][NextLedger]_vars

----------------------------------------------------------------------------
(* Specification of the generation route: one request on any input,       *)
(* answered by any upstream behaviour                                      *)

InitRoute ==
    PatchIdle /\ HistIdle /\ LedgerIdle /\ RouteIdle /\ PageIdle /\ SupaIdle

CallPOST ==
    /\ routePc = "idle"
    /\ \E req \in GenerateRequests, up \in Upstreams :
          /\ routeReq' = req
          /\ routeUp' = up
          /\ routeRes' = POST(req, up)
    /\ routePc' = "answered"
    /\ UNCHANGED patchVars
    /\ UNCHANGED histVars
    /\ UNCHANGED ledgerVars
    /\ UNCHANGED pageVars
    /\ UNCHANGED supaVars

NextRoute == CallPOST

SpecRoute == InitRoute /\ [][NextRoute]_vars

----------------------------------------------------------------------------
(* Specification of the session page: the user submits prompts and edits   *)
(* the code, the route answers, code is compiled, the correction loop      *)
(* reacts, saves are answered                                              *)

InitTurn ==
    PatchIdle /\ HistIdle /\ LedgerIdle /\ RouteIdle /\ PageIdle /\ SupaIdle

\* the remote table answers a call of the history hook
HistoryAnswers ==
    /\ \/ \E l \in BagToSet(loads) : LoadDone(l)
       \/ \E s \in BagToSet(saves) : SaveInserted(s)
    /\ UNCHANGED ledgerVars
    /\ UNCHANGED routeVars
    /\ UNCHANGED pageVars

\* a step of the page, taken when no call of the history hook is pending
PageStep ==
    /\ Quiet
    /\ \/ \E u \in TurnUserInputs : UserSubmit(u)
       \/ TimerFires
       \/ \E up \in TurnUpstreams : Respond(up)
       \/ \E newCode \in EditorCodes : UserEditsCode(newCode)
       \/ \E outcome \in CompileOutcomes : CompileCode(outcome)
       \/ LoopReacts

NextTurn ==
    /\ PageStep \/ HistoryAnswers
    /\ UNCHANGED patchVars
    /\ UNCHANGED supaVars

SpecTurn == InitTurn /\ [][NextTurn]_vars

----------------------------------------------------------------------------
(* Properties of the patch engine                                          *)

\* number of start offsets at which t occurs in s, overlapping ones included
occurrences(s, t) == Cardinality({p \in 0..Len(s) : occursAt(s, t, p)})

\* the least start offset at which t occurs in s (t occurs in s)
matchStart(s, t) ==
    CHOOSE p \in 0..Len(s) :
        occursAt(s, t, p) /\ \A q \in 0..Len(s) : occursAt(s, t, q) => p <= q

\* line feeds of s strictly before offset p
lineFeedsBefore(s, p) == Cardinality({q \in 1..p : s[q] = NL})

\* the first k edits of the call all applied, and the buffer they produced
prefixApplied(k) == applyEdits(callCode, SubSeq(callEdits, 1, k)).success
bufferAfter(k)   == applyEdits(callCode, SubSeq(callEdits, 1, k)).result

\* C1: a single edit whose (non-empty) old_string occurs exactly once
\* succeeds and yields prefix + new_string + suffix, new_string taken
\* literally ('$' included).
C1_SingleEditIsLiteral ==
    (/\ patchPc = "returned"
     /\ Len(callEdits) = 1
     /\ Len(callEdits[1].old_string) > 0
     /\ occurrences(callCode, callEdits[1].old_string) = 1)
    => LET old == callEdits[1].old_string
           p   == matchStart(callCode, old)
       IN  /\ callRet.success
           /\ callRet.result = substring(callCode, 0, p)
                               \o callEdits[1].new_string
                               \o substring(callCode, p + Len(old), Len(callCode))

\* C2: when applyEdits succeeds, every edit had a non-empty old_string that
\* occurred at exactly one start offset of the buffer it was applied to.
C2_SuccessMeansUniqueMatch ==
    (patchPc = "returned" /\ callRet.success)
    => \A k \in 1..Len(callEdits) :
          /\ Len(callEdits[k].old_string) > 0
          /\ occurrences(bufferAfter(k - 1), callEdits[k].old_string) = 1

\* C3: if edit i is the first whose old_string is absent from the buffer made
\* by edits 1..i-1, the call fails with the not-found error for index i, the
\* failing edit, and the original input as code.
C3_NotFoundReturnsOriginal ==
    patchPc = "returned"
    => \A i \in 1..Len(callEdits) :
          (/\ prefixApplied(i - 1)
           /\ occurrences(bufferAfter(i - 1), callEdits[i].old_string) = 0)
          => /\ callRet.success = FALSE
             /\ callRet.error = [kind |-> "not_found", index |-> i, matches |-> 0]
             /\ callRet.failedEdit = <<callEdits[i]>>
             /\ callRet.result = callCode

\* C3 witness: the second edit is not found after the first one changed the buffer
C3_Witness ==
    /\ patchPc = "returned"
    /\ Len(callEdits) = 2
    /\ callRet.error.kind = "not_found"
    /\ callRet.error.index = 2
    /\ bufferAfter(1) # callCode

\* C4: if an edit's (non-empty) old_string occurs two or more times in the
\* current buffer, the call fails with the ambiguous error whose count is the
\* number of occurrences, the failing edit, and the original input as code.
C4_AmbiguousReportsOccurrences ==
    patchPc = "returned"
    => \A i \in 1..Len(callEdits) :
          (/\ prefixApplied(i - 1)
           /\ Len(callEdits[i].old_string) > 0
           /\ occurrences(bufferAfter(i - 1), callEdits[i].old_string) >= 2)
          => /\ callRet.success = FALSE
             /\ callRet.error =
                  [kind |-> "ambiguous", index |-> i,
                   matches |-> occurrences(bufferAfter(i - 1), callEdits[i].old_string)]
             /\ callRet.failedEdit = <<callEdits[i]>>
             /\ callRet.result = callCode

\* the case of C5: e1 applies, e2.old_string is absent from the input and
\* occurs exactly once in the buffer e1 leaves
sequentialCase ==
    /\ patchPc = "returned"
    /\ Len(callEdits) = 2
    /\ applyEdits(callCode, <<callEdits[1]>>).success
    /\ occurrences(callCode, callEdits[2].old_string) = 0
    /\ occurrences(applyEdits(callCode, <<callEdits[1]>>).result,
                   callEdits[2].old_string) = 1

\* C5: edits are applied in list order, each to the output of the previous
\* one: [e1, e2] with e2.old_string present only after e1 succeeds, and its
\* result is e2 applied to the result of e1.
C5_SequentialDependency ==
    sequentialCase
    => /\ callRet.success
       /\ callRet.result =
            applyEdits(applyEdits(callCode, <<callEdits[1]>>).result,
                       <<callEdits[2]>>).result

\* C5 witness: such a dependent pair was applied
C5_Witness == sequentialCase /\ callRet.success /\ callRet.result # callCode

\* C6: on success enrichedEdits has the length and order of the input, each
\* entry with the input's description, old_string and new_string and with
\* lineNumber = 1 + line feeds strictly before the match start in the buffer
\* as it was just before that edit.
C6_EnrichedEditsLineNumbers ==
    (patchPc = "returned" /\ callRet.success)
    => /\ Len(callRet.enrichedEdits) = Len(callEdits)
       /\ \A k \in 1..Len(callEdits) :
             LET e   == callRet.enrichedEdits[k]
                 buf == bufferAfter(k - 1)
             IN  /\ e.description = callEdits[k].description
                 /\ e.old_string = callEdits[k].old_string
                 /\ e.new_string = callEdits[k].new_string
                 /\ e.lineNumber =
                      1 + lineFeedsBefore(buf, matchStart(buf, e.old_string))

\* C6 witness: two edits applied, the second on a later line than in the input
C6_Witness ==
    /\ patchPc = "returned"
    /\ callRet.success
    /\ Len(callEdits) = 2
    /\ callRet.enrichedEdits[1].lineNumber = 1
    /\ callRet.enrichedEdits[2].lineNumber = 2
    /\ getLineNumber(callCode, callEdits[2].old_string) # 2

----------------------------------------------------------------------------
(* Properties of the history hook                                          *)

\* C7: in every reachable state -1 <= currentIndex < length(snapshots), and
\* currentIndex = -1 only when snapshots is empty.
C7_CursorWithinSnapshots ==
    /\ -1 <= currentIndex
    /\ currentIndex < Len(snapshots)
    /\ (currentIndex = -1 => Len(snapshots) = 0)

\* C8: in every reachable state the sequence_number values of the in-memory
\* snapshots are exactly 0..length-1 in ascending order, one snapshot each.
C8_SequenceNumbersDense ==
    \A i \in 1..Len(snapshots) : snapshots[i].sequence_number = i - 1

\* C9: from an empty store, after N successful saves in a row with no undo
\* in between, the snapshots carry sequence_number 0..N-1, currentIndex is
\* N-1, canUndo is (N > 1) and canRedo is false.
C9_SavesInARow ==
    savesSinceEmpty >= 1
    => /\ Len(snapshots) = savesSinceEmpty
       /\ \A i \in 1..Len(snapshots) : snapshots[i].sequence_number = i - 1
       /\ currentIndex = savesSinceEmpty - 1
       /\ canUndo = (savesSinceEmpty > 1)
       /\ canRedo = FALSE

\* C9 witness: three saves in a row have completed
C9_Witness ==
    /\ savesSinceEmpty = 3
    /\ lastOp.op = "saveDone"
    /\ Len(snapshots) = 3

\* the case of C10: the save that just completed was made with the cursor
\* before the last snapshot
saveOverRedoTail ==
    /\ lastOp.op = "saveDone"
    /\ lastOp.save.idx < Len(lastOp.save.current) - 1

\* C10: a successful save made at currentIndex = k < length-1 leaves
\* snapshots = old[0..k] + [new], new.sequence_number = k+1, currentIndex =
\* k+1, canRedo false, and none of the old snapshots beyond k.
C10_SaveTruncatesRedoTail ==
    saveOverRedoTail
    => LET k   == lastOp.save.idx
           old == lastOp.save.current
       IN  /\ snapshots = Append(SubSeq(old, 1, k + 1), lastOp.data)
           /\ lastOp.data.sequence_number = k + 1
           /\ currentIndex = k + 1
           /\ canRedo = FALSE
           /\ \A j \in (k + 2)..Len(old) : old[j] \notin Range(snapshots)

\* C10 witness: a save made one step back from the end of two has completed
C10_Witness ==
    /\ saveOverRedoTail
    /\ lastOp.save.idx = 0
    /\ Len(lastOp.save.current) = 2
    /\ Len(snapshots) = 2

\* C11: undo at currentIndex <= 0 and redo at currentIndex >= length-1
\* return null and leave cursor and snapshots as they were; any other undo
\* or redo moves the cursor by exactly one, leaves snapshots as they were
\* and returns the code of the snapshot at the new cursor.
C11_UndoRedoContract ==
    [][/\ lastOp'.op = "undo"
          => /\ snapshots' = snapshots
             /\ IF currentIndex <= 0
                THEN /\ currentIndex' = currentIndex
                     /\ lastOp'.threw = FALSE
                     /\ lastOp'.ret = <<>>
                ELSE /\ currentIndex' = currentIndex - 1
                     /\ lastOp'.threw = FALSE
                     /\ currentIndex' + 1 \in DOMAIN snapshots
                     /\ lastOp'.ret = <<snapshots[currentIndex' + 1].code>>
       /\ lastOp'.op = "redo"
          => /\ snapshots' = snapshots
             /\ IF currentIndex >= Len(snapshots) - 1
                THEN /\ currentIndex' = currentIndex
                     /\ lastOp'.threw = FALSE
                     /\ lastOp'.ret = <<>>
                ELSE /\ currentIndex' = currentIndex + 1
                     /\ lastOp'.threw = FALSE
                     /\ currentIndex' + 1 \in DOMAIN snapshots
                     /\ lastOp'.ret = <<snapshots[currentIndex' + 1].code>>]_vars

\* C12: when the insert of saveSnapshot fails, snapshots and currentIndex
\* are exactly as the call found them, no row is deleted and no delete is
\* pending on its behalf, and canUndo / canRedo are as before.
C12_FailedInsertAborts ==
    [][lastOp'.op = "saveFailed"
       => LET s == lastOp'.save
          IN  /\ snapshots' = snapshots /\ snapshots' = s.current
              /\ currentIndex' = currentIndex /\ currentIndex' = s.idx
              /\ db \subseteq db'
              /\ saves' = oneFewer(saves, s)
              /\ \A t \in BagToSet(saves') : t.phase # "delete"
              /\ canUndo' = canUndo
              /\ canRedo' = canRedo]_vars

\* C12 witness: a save made one step back from the end of two has failed
\* and the redo tail is still there
C12_Witness ==
    /\ lastOp.op = "saveFailed"
    /\ lastOp.save.idx = 0
    /\ Len(lastOp.save.current) = 2
    /\ snapshots = lastOp.save.current
    /\ canRedo

\* C13: when the insert succeeds and the delete of the truncated redo
\* records fails, snapshots is activeSnapshots + [newRecord], the new
\* record being the row the insert stored, and currentIndex is the new last
\* index.
C13_FailedDeleteStillCommits ==
    (lastOp.op = "saveDone" /\ lastOp.delete = "failed")
    => LET k   == lastOp.save.idx
           old == lastOp.save.current
       IN  /\ snapshots = Append(SubSeq(old, 1, k + 1), lastOp.data)
           /\ lastOp.data.code = lastOp.save.code
           /\ lastOp.data \in db
           /\ currentIndex = Len(snapshots) - 1

\* C13 witness: the delete failed, the truncated row is still in the table
\* and no longer in memory
C13_Witness ==
    /\ lastOp.op = "saveDone"
    /\ lastOp.delete = "failed"
    /\ lastOp.save.idx = 0
    /\ Len(lastOp.save.current) = 2
    /\ lastOp.save.current[2] \in db
    /\ lastOp.save.current[2] \notin Range(snapshots)

\* C14: a save sends a delete exactly when the list it read had entries
\* beyond the cursor it read; the rows that leave the table are rows whose
\* identifiers stood at positions beyond that cursor, never one at or before
\* it, never the row just inserted, never one that was not in the list; a
\* delete that succeeds removes every such row.
C14_DeleteOnlyRedoTail ==
    [][lastOp'.op \in {"saveInserted", "saveDone"}
       => LET s      == lastOp'.save
              gone   == {r.id : r \in db \ db'}
              beyond == {s.current[j].id : j \in (s.idx + 2)..Len(s.current)}
              upTo   == {s.current[j].id : j \in 1..Min(s.idx + 1, Len(s.current))}
          IN  /\ gone \subseteq beyond
              /\ gone \cap upTo = {}
              /\ lastOp'.data \in db'
              /\ lastOp'.op = "saveInserted" => (gone = {} /\ beyond # {})
              /\ lastOp'.op = "saveDone"
                 => /\ (lastOp'.delete = "none") = (beyond = {})
                    /\ lastOp'.delete = "done"
                       => \A r \in db' : r.id \notin beyond
                    /\ lastOp'.delete # "done" => gone = {}]_vars

\* C14 witness: a delete removed the one row beyond the cursor and left the
\* row at the cursor and the new row in the table
C14_Witness ==
    /\ lastOp.op = "saveDone"
    /\ lastOp.delete = "done"
    /\ lastOp.save.idx = 0
    /\ Len(lastOp.save.current) = 2
    /\ lastOp.save.current[1] \in db
    /\ lastOp.save.current[2] \notin db
    /\ lastOp.data \in db

\* C15: when a load completes with data, snapshots is the session's rows in
\* ascending sequence_number order, currentIndex is length-1 (-1 when no
\* row came back) and isLoaded is true, whatever the store held before; a
\* load that fails also ends with isLoaded true.
C15_LoadReplacesState ==
    /\ lastOp.op = "loadDone"
       => /\ snapshots = lastOp.data
          /\ Range(snapshots) = {r \in db : r.session_id = lastOp.sid}
          /\ \A i, j \in 1..Len(snapshots) :
                i < j => snapshots[i].sequence_number <= snapshots[j].sequence_number
          /\ currentIndex = Len(snapshots) - 1
          /\ isLoaded
    /\ lastOp.op = "loadFailed" => isLoaded

\* C16: the row a save inserts carries the session identifier the save was
\* called under, and the rows whose identifiers it sends to the delete are
\* rows of that same session.
C16_SaveStaysInItsSession ==
    /\ lastOp.op \in {"saveInserted", "saveDone"}
       => lastOp.data.session_id = lastOp.save.sid
    /\ \A s \in BagToSet(saves) :
          s.phase = "delete"
          => \A r \in Range(sliceFrom(s.current, s.idx + 1)) : r.session_id = s.sid

----------------------------------------------------------------------------
(* Properties of the conversation ledger                                   *)

\* positions of the ledger that hold a user or assistant message
contextPositions(msgs) == {i \in 1..Len(msgs) : msgs[i].role # "error"}

\* the k-th of them in ledger order
contextPosition(msgs, k) ==
    CHOOSE i \in contextPositions(msgs) :
        Cardinality({j \in contextPositions(msgs) : j < i}) = k - 1

\* C17: getFullContext has one entry per user or assistant message, in
\* ledger order, and none for an error message; a user entry carries the
\* message's content, an assistant entry the marker "[Generated Code]" and
\* nothing of the message's content or codeSnapshot.
C17_FullContextView ==
    LET ctx == getFullContext(messages)
    IN  /\ Len(ctx) = Cardinality(contextPositions(messages))
        /\ \A k \in 1..Len(ctx) :
              LET m == messages[contextPosition(messages, k)]
              IN  /\ ctx[k].role = m.role
                  /\ ctx[k].role \in {"user", "assistant"}
                  /\ m.role = "user" => ctx[k].content = m.content
                  /\ m.role = "assistant"
                     => /\ ctx[k].content = "[Generated Code]"
                        /\ DOMAIN ctx[k] = {"role", "content", "attachedImages"}
                        /\ ctx[k].attachedImages = <<>>

\* C17 witness: a ledger of a user turn, an error and an assistant turn
\* gives a context of two entries
C17_Witness ==
    /\ Len(messages) = 3
    /\ messages[1].role = "user"
    /\ messages[2].role = "error"
    /\ messages[3].role = "assistant"
    /\ Len(getFullContext(messages)) = 2
    /\ getFullContext(messages)[2].content = "[Generated Code]"

\* C18: addUserMessage, addAssistantMessage and addErrorMessage leave the
\* messages already in the ledger as they are, in their order, and put one
\* message of their role after them; of the other operations only
\* clearConversation and initializeFromSnapshots change the list.
C18_AppendOnly ==
    [][/\ ledgerOp'.op \in {"addUserMessage", "addAssistantMessage", "addErrorMessage"}
          => /\ Len(messages') = Len(messages) + 1
             /\ SubSeq(messages', 1, Len(messages)) = messages
             /\ messages'[Len(messages')].role =
                  (CASE ledgerOp'.op = "addUserMessage" -> "user"
                     [] ledgerOp'.op = "addAssistantMessage" -> "assistant"
                     [] ledgerOp'.op = "addErrorMessage" -> "error")
       /\ ledgerOp'.op \notin {"addUserMessage", "addAssistantMessage",
                               "addErrorMessage", "clearConversation",
                               "initializeFromSnapshots"}
          => messages' = messages]_vars

\* C18 witness: an error message was added after another error message
C18_Witness ==
    /\ ledgerOp.op = "addErrorMessage"
    /\ Len(messages) = 3
    /\ messages[1].role = "user"
    /\ messages[2].role = "error"
    /\ messages[3].role = "error"

\* there is an assistant message in the ledger, and the code of the last one
hasAssistantTurn(msgs) == \E i \in 1..Len(msgs) : msgs[i].role = "assistant"
lastAssistantCode(msgs) ==
    LET i == CHOOSE i \in 1..Len(msgs) :
                 /\ msgs[i].role = "assistant"
                 /\ \A j \in (i + 1)..Len(msgs) : msgs[j].role # "assistant"
    IN  msgs[i].codeSnapshot[1]

\* C19: hasManualEdits is false initially and after addAssistantMessage; a
\* markManualEdit with a code other than the last assistant turn's code
\* makes it true; once true it stays true over every operation but
\* addAssistantMessage, clearConversation and initializeFromSnapshots.
C19_ManualEditFlag ==
    [][/\ ledgerOp.op = "init" => ~hasManualEdits
       /\ ledgerOp'.op = "addAssistantMessage" => ~hasManualEdits'
       /\ (/\ ledgerOp'.op = "markManualEdit"
           /\ hasAssistantTurn(messages)
           /\ ledgerOp'.currentCode # lastAssistantCode(messages))
          => hasManualEdits'
       /\ (/\ hasManualEdits
           /\ ledgerOp'.op \notin {"addAssistantMessage", "clearConversation",
                                   "initializeFromSnapshots"})
          => hasManualEdits']_vars

\* the skills named by the assistant messages of the ledger
skillsOfAssistantTurns(msgs) ==
    UNION {Range(msgs[i].metadata[1].skills) :
              i \in {j \in 1..Len(msgs) :
                        msgs[j].role = "assistant" /\ msgs[j].metadata # <<>>}}

\* C20: getPreviouslyUsedSkills lists no skill twice, and the skills it
\* lists are exactly those of the assistant messages in the ledger.
C20_PreviouslyUsedSkills ==
    LET used == getPreviouslyUsedSkills(messages)
    IN  /\ \A i, j \in 1..Len(used) : i # j => used[i] # used[j]
        /\ Range(used) = skillsOfAssistantTurns(messages)

\* C20 witness: two assistant turns with a skill in common, the later one
\* naming fewer skills, and a user turn between them
C20_Witness ==
    /\ Len(messages) = 3
    /\ messages[1].role = "assistant"
    /\ messages[2].role = "user"
    /\ messages[3].role = "assistant"
    /\ messages[1].metadata # <<>> /\ messages[1].metadata[1].skills = <<"b", "a">>
    /\ messages[3].metadata # <<>> /\ messages[3].metadata[1].skills = <<"a", "a">>
    /\ getPreviouslyUsedSkills(messages) = <<"b", "a">>

----------------------------------------------------------------------------
(* Properties of the generation route                                      *)

\* the request reached the decision handling of the follow-up mode
decisionHandled ==
    /\ routePc = "answered"
    /\ routeUp.apiKey
    /\ entersFollowUpMode(routeReq)
    /\ ~routeUp.decisionThrew

\* an optional array that is there and has an element
nonEmptyArray(opt) == opt # <<>> /\ opt[1] # <<>>

\* the payload the decision's type names is null or empty
payloadMissing(response) ==
    \/ response.type = "edit" /\ ~nonEmptyArray(response.edits)
    \/ response.type = "full" /\ ~truthyString(response.code)

\* C22: on a follow-up turn an edit decision whose edits list is null or
\* empty, and a full decision whose code is null or empty, are answered with
\* the invalid-response error and no code
C22_EmptyPayloadRejected ==
    (decisionHandled /\ payloadMissing(routeUp.decision))
        => /\ routeRes.error = "invalid_response"
           /\ routeRes.status = 400
           /\ routeRes.code = <<>>

\* an edit decision whose edits all apply to the current code
editsAllApply ==
    /\ decisionHandled
    /\ routeUp.decision.type = "edit"
    /\ routeUp.decision.edits # <<>>
    /\ applyEdits(routeReq.currentCode[1], routeUp.decision.edits[1]).success

\* a full decision that carries code
fullDecision ==
    /\ decisionHandled
    /\ routeUp.decision.type = "full"
    /\ truthyString(routeUp.decision.code)

\* the edit list l is the list edits with a line number on every entry
lineAnnotated(l, edits) ==
    /\ Len(l) = Len(edits)
    /\ \A k \in 1..Len(l) :
          /\ l[k].description = edits[k].description
          /\ l[k].old_string = edits[k].old_string
          /\ l[k].new_string = edits[k].new_string
          /\ l[k].lineNumber \in Nat

\* C24: on a follow-up turn an edit decision whose edits all apply is
\* answered with the code applyEdits makes of currentCode, edit type
\* tool_edit and the line-annotated edits in metadata.edits; a full decision
\* is answered with its code verbatim, edit type full_replacement and no
\* metadata.edits
C24_SettledDecision ==
    /\ editsAllApply =>
          /\ routeRes.status = 200
          /\ routeRes.code =
                <<applyEdits(routeReq.currentCode[1], routeUp.decision.edits[1]).result>>
          /\ routeRes.editType = <<"tool_edit">>
          /\ routeRes.edits # <<>>
          /\ lineAnnotated(routeRes.edits[1], routeUp.decision.edits[1])
    /\ fullDecision =>
          /\ routeRes.status = 200
          /\ routeRes.code = routeUp.decision.code
          /\ routeRes.editType = <<"full_replacement">>
          /\ routeRes.edits = <<>>

\* two edits were applied one after the other and changed the code
C24_Witness ==
    /\ editsAllApply
    /\ Len(routeUp.decision.edits[1]) = 2
    /\ routeRes.code # routeReq.currentCode
    /\ routeRes.edits[1][2].lineNumber = 1

\* the route answered a decision with the invalid-response error
invalidResponse == decisionHandled /\ routeRes.error = "invalid_response"

\* the route answered a decision with a failure of the patch engine
patchFailed == decisionHandled /\ routeRes.error = "patch"

\* C23: an invalid response of the generation model is reported with a
\* type that differs from the type of the retryable patch failure
C23_InvalidResponseKind ==
    invalidResponse => routeRes.type # <<"edit_failed">>

----------------------------------------------------------------------------
(* Properties of the session page                                          *)

\* positions of the user messages that carry at least one image
positionsWithImages(msgs) ==
    {i \in 1..Len(msgs) :
        /\ msgs[i].role = "user"
        /\ msgs[i].attachedImages # <<>>
        /\ msgs[i].attachedImages[1] # <<>>}

\* the attachments of the latest such message, none when there is none
latestAttachments(msgs) ==
    IF positionsWithImages(msgs) = {} THEN <<>>
    ELSE LET last == CHOOSE i \in positionsWithImages(msgs) :
                        \A j \in positionsWithImages(msgs) : j <= i
         IN  msgs[last].attachedImages

\* an automatic corrective request is in flight
retryInFlight == turnPc = "inflight" /\ turnOp.op = "submit" /\ turnOp.silent

respondStep == turnPc = "inflight" /\ turnPc' = "idle"

\* this step is the correction loop looking at a settled turn
loopStep == loopPc = "watching" /\ loopPc' = "settled" /\ turnOp'.op = "loop"

\* a turn that failed in the patch engine: the answer is the edit_failed
\* error with the failing edit and no code, the ledger gains an error
\* message and no assistant message, and neither the code nor the history
\* (snapshots, currentIndex, pending saves) changes
patchFailureSettles ==
    (respondStep /\ routeRes'.error = "patch") =>
        /\ routeRes'.status = 400
        /\ routeRes'.type = <<"edit_failed">>
        /\ routeRes'.code = <<>>
        /\ routeRes'.failedEdit # <<>>
        /\ occurrences(routeReq.currentCode[1], routeRes'.failedEdit[1].old_string) # 1
        /\ Len(messages') = Len(messages) + 1
        /\ SubSeq(messages', 1, Len(messages)) = messages
        /\ messages'[Len(messages')].role = "error"
        /\ pageCode' = pageCode
        /\ UNCHANGED <<snapshots, currentIndex, saves>>

\* the loop schedules the next attempt with the failed edit in its context
retryWithFailedEdit ==
    /\ pendingTrigger' # <<>>
    /\ errorCorrection' # <<>>
    /\ errorCorrection'[1].failedEdit = routeRes.failedEdit
    /\ errorCorrection'[1].failedEdit # <<>>
    /\ errorCorrection'[1].attemptNumber = requests + 1

\* C25 as stated: a turn that fails in the patch engine settles without
\* code, assistant message or snapshot, and the loop schedules the next
\* attempt with the failed edit whenever it looks at such a turn
C25_PatchFailureAlwaysRetried ==
    [][/\ patchFailureSettles
       /\ (loopStep /\ routeRes.error = "patch") => retryWithFailedEdit]_vars

\* C25 amended: a turn that fails in the patch engine settles without
\* code, assistant message or snapshot, and the loop schedules the next
\* attempt with the failed edit when it looks at such a turn that was not
\* already the last of the MAX_CORRECTION_ATTEMPTS attempts
C25_PatchFailureRetried ==
    [][/\ patchFailureSettles
       /\ (loopStep /\ routeRes.error = "patch"
                    /\ requests < MAX_CORRECTION_ATTEMPTS) => retryWithFailedEdit]_vars

\* a retry is scheduled for an edit that was ambiguous in the code the user
\* typed, with that edit in the correction context
C25_Witness ==
    /\ pendingTrigger # <<>>
    /\ routeRes.error = "patch"
    /\ routeRes.patchError.kind = "ambiguous"
    /\ errorCorrection # <<>>
    /\ errorCorrection[1].failedEdit = <<editAB>>
    /\ messages[Len(messages)].role = "error"
    /\ snapshots = <<>>

\* the assistant messages of the ledger, oldest first
assistantPositions == {i \in 1..Len(messages) : messages[i].role = "assistant"}

\* the edit type of the first successful turn
firstEditType ==
    LET first == CHOOSE i \in assistantPositions : \A j \in assistantPositions : i <= j
    IN  messages[first].metadata[1].editType

\* C26: the decision protocol is entered only by follow-up requests that
\* have current code; a request without current code takes the streamed full
\* generation and never calls applyEdits; and the first successful turn of
\* the session is a full replacement
C26_FirstTurnIsFullGeneration ==
    /\ routePc = "answered" =>
          /\ "decide" \in routeRes.calls =>
                routeReq.isFollowUp /\ truthyString(routeReq.currentCode)
          /\ ~truthyString(routeReq.currentCode) =>
                /\ "applyEdits" \notin routeRes.calls
                /\ "decide" \notin routeRes.calls
                /\ routeRes.status = 200 => routeRes.streamed
    /\ assistantPositions # {} => firstEditType = "full_replacement"

\* the page shows a validation error
validationErrorShown == generationError # <<>> /\ generationError[1].type = "validation"

\* C27: a first-turn request that validation judges invalid is answered with
\* the validation error before any generation call is made, and while that
\* error is shown no automatic retry is scheduled or in flight; a follow-up
\* request is never validated or rejected by validation
C27_ValidationIsTerminal ==
    /\ routePc = "answered" =>
          /\ (~routeReq.isFollowUp /\ routeUp.validation = "invalid") =>
                /\ routeRes.status = 400
                /\ routeRes.error = "validation"
                /\ routeRes.type = <<"validation">>
                /\ routeRes.code = <<>>
                /\ routeRes.calls \cap {"streamText", "decide", "applyEdits"} = {}
          /\ routeReq.isFollowUp =>
                /\ routeRes.error # "validation"
                /\ "validate" \notin routeRes.calls
    /\ validationErrorShown =>
          /\ pendingTrigger = <<>>
          /\ turnPc = "idle"
          /\ errorCorrection = <<>>

\* the first turn was rejected by validation and the correction loop has
\* looked at it and done nothing
C27_Witness ==
    /\ validationErrorShown
    /\ ~routeReq.isFollowUp
    /\ routeRes.error = "validation"
    /\ turnOp = [op |-> "loop", did |-> "nothing"]
    /\ messages[Len(messages)].role = "error"

\* C28: with maxAttempts = 3 a user turn leads to at most three generation
\* requests, the automatic ones being attempts 2 and 3; the loop schedules a
\* retry for a qualifying failure of attempt 1 or 2, and leaves a failure of
\* attempt 3 as it is, with no request scheduled or in flight
C28_BoundedRetries ==
    /\ requests <= 3
    /\ retryInFlight =>
          /\ requests \in {2, 3}
          /\ routeReq.errorCorrection # <<>>
          /\ routeReq.errorCorrection[1].attemptNumber = requests
          /\ routeReq.errorCorrection[1].maxAttempts = 3
    /\ (turnOp.op = "loop" /\ qualifyingFailure) =>
          IF requests < 3
          THEN turnOp.did = "retry" /\ pendingTrigger # <<>>
          ELSE /\ turnOp.did = "nothing"
               /\ pendingTrigger = <<>>
               /\ turnPc = "idle"
               /\ ~isStreaming

\* three attempts of one turn failed, the last with a patch failure after a
\* compilation or runtime failure; the third failure stays and nothing is
\* scheduled
C28_Witness ==
    /\ requests = 3
    /\ turnOp = [op |-> "loop", did |-> "nothing"]
    /\ patchFailure
    /\ codeError # <<>>
    /\ pendingTrigger = <<>>
    /\ turnPc = "idle"

\* this step is the user submitting a prompt
userSubmitStep ==
    turnPc = "idle" /\ turnPc' = "inflight" /\ ~turnOp'.silent

\* C29: each automatic retry raises attemptNumber by exactly one and carries
\* the new number in its correction context; a turn the user starts sets
\* attemptNumber back to 1, whatever it was, and a qualifying failure of its
\* first or second attempt is retried however many requests the session has
\* sent before
C29_AttemptCounter ==
    [][/\ (loopStep /\ turnOp'.did = "retry") =>
             /\ attemptNumber' = attemptNumber + 1
             /\ errorCorrection'[1].attemptNumber = attemptNumber'
             /\ attemptNumber' = requests + 1
       /\ userSubmitStep => (attemptNumber' = 1 /\ requests' = 1)
       /\ (loopStep /\ qualifyingFailure /\ requests < 3) =>
             turnOp'.did = "retry"]_vars

\* the second turn of the user is retried as attempt 2 after the first
\* turn had used a retry of its own
C29_Witness ==
    /\ retryInFlight
    /\ sent = 4
    /\ requests = 2
    /\ attemptNumber = 2
    /\ routeReq.errorCorrection[1].attemptNumber = 2
    /\ Cardinality({i \in 1..Len(messages) : messages[i].role = "user"}) = 2

\* a request the user started is in flight
userRequestInFlight == turnPc = "inflight" /\ turnOp.op = "submit" /\ ~turnOp.silent

----------------------------------------------------------------------------
(* The delay of onTriggerCorrection: the user may submit a prompt while the *)
(* 100 ms timer of an automatic retry is armed                              *)

\* variant of busy: the sidebar never holds a call back
busyNever == FALSE

\* the sidebar is busy while its request awaits the answer of the route
busy == turnPc = "inflight"

\* the user submits a prompt while the timer of a retry is armed: the page
\* shows no turn in flight, so submission is open; the timer keeps running
UserSubmitInDelay(u) ==
    /\ turnPc = "idle"
    /\ ~isStreaming
    /\ pendingTrigger # <<>>
    /\ send(buildRequest(u.content, u.attachedImages))
    /\ handleMessageSent(u.content, u.attachedImages)
    /\ handleStreamingChange(TRUE)
    /\ prompt' = u.content
    /\ attemptNumber' = 1
    /\ loopPc' = "settled"
    /\ requests' = 1
    /\ turnOp' = [op |-> "submit", silent |-> FALSE]
    /\ UNCHANGED <<hasGeneratedOnce, pageCode, compilationError, compilePending,
                   aiGenerated, pendingTrigger, codeChanged>>
    /\ UNCHANGED histVars

\* the timer fires while the request of the user is in flight:
\* triggerGeneration is called, and a busy sidebar drops the call
TimerFiresInFlight ==
    /\ pendingTrigger # <<>>
    /\ turnPc = "inflight"
    /\ pendingTrigger' = <<>>
    /\ IF busy
       THEN /\ turnOp' = [op |-> "dropped", silent |-> TRUE]
            /\ UNCHANGED <<turnPc, sent, requests>>
            /\ UNCHANGED routeVars
       ELSE /\ send(buildRequest(prompt, pendingTrigger[1].attachedImages))
            /\ requests' = requests + 1
            /\ turnOp' = [op |-> "submit", silent |-> TRUE]
    /\ UNCHANGED <<isStreaming, prompt, hasGeneratedOnce, generationError,
                   errorCorrection, pageCode, compilationError, runtimeError,
                   compilePending, attemptNumber, aiGenerated, loopPc,
                   codeChanged>>
    /\ UNCHANGED histVars
    /\ UNCHANGED ledgerVars

\* a step of the page, the steps inside the delay included
DelayStep ==
    /\ Quiet
    /\ \/ \E u \in TurnUserInputs : UserSubmit(u)
       \/ \E u \in TurnUserInputs : UserSubmitInDelay(u)
       \/ TimerFires
       \/ TimerFiresInFlight
       \/ \E up \in TurnUpstreams : Respond(up)
       \/ \E outcome \in CompileOutcomes : CompileCode(outcome)
       \/ LoopReacts

NextDelay ==
    /\ DelayStep \/ HistoryAnswers
    /\ UNCHANGED patchVars
    /\ UNCHANGED supaVars

SpecDelay == InitTurn /\ [][NextDelay]_vars

\* this step sends a generation request
sendStep == sent' = sent + 1

----------------------------------------------------------------------------
(* Properties of the response stream of the initial generation             *)

\* the route has answered with the stream of the initial generation
streamAnswered == routePc = "answered" /\ routeRes.streamed

\* positions of the metadata events in the answer
metadataPositions ==
    {i \in 1..Len(routeRes.events) : routeRes.events[i].type = "metadata"}

\* C32 as stated: the stream of a first turn carries the metadata event with
\* the detected skills exactly once, as its last event, after the chunks of
\* the code
C32_MetadataTrails ==
    streamAnswered =>
        /\ metadataPositions = {Len(routeRes.events)}
        /\ Len(routeRes.events) >= 1

\* C32 amended: when the generation response has a body, the stream of a
\* first turn carries the metadata event with the detected skills exactly
\* once, as its first event, followed by the chunks of the code in their
\* order; when it has no body the answer carries no event
C32_MetadataLeads ==
    streamAnswered =>
        IF routeUp.streamBody
        THEN /\ metadataPositions = {1}
             /\ routeRes.events[1] = metadataEvent(routeUp.skills)
             /\ Len(routeRes.events) = Len(routeUp.streamCode) + 1
             /\ \A i \in 1..Len(routeUp.streamCode) :
                   routeRes.events[i + 1] = textChunk(routeUp.streamCode[i])
        ELSE routeRes.events = <<>>

\* a first turn was answered with the metadata event that names a skill and
\* then two chunks of code
C32_Witness ==
    /\ streamAnswered
    /\ ~routeReq.isFollowUp
    /\ Len(routeRes.events) = 3
    /\ routeRes.events[1].type = "metadata"
    /\ routeRes.events[1].skills = <<"s">>
    /\ routeRes.events[2].text = <<"a">>
    /\ routeRes.events[3].text = <<"b">>

----------------------------------------------------------------------------
(* Properties of calls that overlap a save                                 *)

\* one session, calls at any time: saves, undo and redo may be called while
\* remote calls are pending
NextOverlap ==
    /\ \/ Answer
       \/ \E code \in OverlapCodes : SaveStart(code)
       \/ Undo
       \/ Redo
    /\ UNCHANGED patchVars
    /\ UNCHANGED ledgerVars
    /\ UNCHANGED routeVars
    /\ UNCHANGED pageVars
    /\ UNCHANGED supaVars

SpecOverlap == InitHistory /\ [][NextOverlap]_vars

\* this step completes a save while the list is the one the save started
\* from: since the save was called, nothing but the cursor has moved
saveCompletesOverSameList ==
    /\ lastOp'.op = "saveDone"
    /\ snapshots = lastOp'.save.current
    /\ sessionId = lastOp'.save.sid

\* C33: when a save completes, the snapshots it keeps are those up to the
\* cursor of that moment, the others are dropped, and the new snapshot is
\* numbered after them: an undo or redo made while the save was in flight
\* counts
C33_SaveReadsStateAtCompletion ==
    [][saveCompletesOverSameList =>
          /\ snapshots' = Append(activeSnapshotsOf(snapshots, currentIndex),
                                 lastOp'.data)
          /\ lastOp'.data.sequence_number =
                sequenceNumberOf(activeSnapshotsOf(snapshots, currentIndex))]_vars

----------------------------------------------------------------------------
(* The two history hooks side by side: the same calls and the same answers *)
(* of the table for both, each hook over a table of its own                 *)

\* both hooks hold the session identifier s1 and no snapshot: the page was
\* opened for the new session s1 and its load returned no rows; the other
\* hook has created the session s1
InitPair ==
    /\ PatchIdle
    /\ LedgerIdle
    /\ RouteIdle
    /\ PageIdle
    /\ sessionId = "s1"
    /\ snapshots = <<>>
    /\ currentIndex = -1
    /\ isLoaded = TRUE
    /\ loads = EmptyBag
    /\ saves = EmptyBag
    /\ lastOp = [op |-> "loadDone", sid |-> "s1", data |-> <<>>]
    /\ savesSinceEmpty = 0
    /\ db = {}
    /\ nextId = 1
    /\ SupaSession("s1")

\* the same call is made on both hooks
PairCall ==
    \/ \E code \in SnapshotCodes : SaveStart(code) /\ supaSaveStart(code)
    \/ Undo /\ supaUndo
    \/ Redo /\ supaRedo

\* the same pending call of both hooks is answered in the same way
PairAnswer ==
    \/ \E s \in BagToSet(saves) : SaveInserted(s) /\ supaSaveInserted(s)
    \/ \E s \in BagToSet(saves) : SaveInsertFailed(s) /\ supaSaveInsertFailed(s)
    \/ \E s \in BagToSet(saves), deleted \in BOOLEAN :
          SaveDeleteAnswered(s, deleted) /\ supaSaveDeleteAnswered(s, deleted)

NextPair ==
    /\ PairCall \/ PairAnswer
    /\ UNCHANGED patchVars
    /\ UNCHANGED ledgerVars
    /\ UNCHANGED routeVars
    /\ UNCHANGED pageVars

SpecPair == InitPair /\ [][NextPair]_vars

\* C34: after the same calls of saveSnapshot, undo and redo and the same
\* answers of the table, the two hooks hold the same snapshots and cursor,
\* report the same canUndo and canRedo, have returned the same values, have
\* the same calls pending and have left the same rows in their tables
C34_HooksEquivalent ==
    /\ supaSnapshots = snapshots
    /\ supaIndex = currentIndex
    /\ (supaIndex > 0) = canUndo
    /\ (supaIndex < Len(supaSnapshots) - 1) = canRedo
    /\ supaOp = lastOp
    /\ supaSaves = saves
    /\ supaDb = db
    /\ supaNextId = nextId

\* both hooks have completed a save that was made after an undo and whose
\* delete of the redo tail succeeded
C34_Witness ==
    /\ lastOp.op = "saveDone"
    /\ lastOp.delete = "done"
    /\ supaOp.op = "saveDone"
    /\ Len(supaSnapshots) = 2
    /\ supaIndex = 1
    /\ Cardinality(supaDb) = 2
    /\ Cardinality(db) = 2

----------------------------------------------------------------------------
(* The conversation context of a follow-up request                         *)

\* longest conversation history of a request
MaxHistory == 7

\* entries of a conversation history: a prompt of the user, an answer of
\* the assistant
HistoryEntries ==
    {[role |-> "user", content |-> "p", attachedImages |-> <<>>],
     [role |-> "assistant", content |-> "[Generated Code]", attachedImages |-> <<>>]}

ConversationHistories == ListsUpTo(HistoryEntries, MaxHistory)

\* follow-up requests over the code "a" with any conversation history
FollowUpRequests ==
    {[prompt |-> "p", isFollowUp |-> TRUE, currentCode |-> << <<"a">> >>,
      errorCorrection |-> <<>>, frameImages |-> <<>>,
      conversationHistory |-> h] : h \in ConversationHistories}

\* upstreams whose decision is an edit that applies, or is not obtained
ContextUpstreams ==
    {[upstream("valid", decision("edit", << <<editAB>> >>, <<>>))
         EXCEPT !.decisionThrew = threw] : threw \in BOOLEAN}

\* one follow-up request is served
CallFollowUp ==
    /\ routePc = "idle"
    /\ \E req \in FollowUpRequests, up \in ContextUpstreams :
          /\ routeReq' = req
          /\ routeUp' = up
          /\ routeRes' = POST(req, up)
    /\ routePc' = "answered"
    /\ UNCHANGED patchVars
    /\ UNCHANGED histVars
    /\ UNCHANGED ledgerVars
    /\ UNCHANGED pageVars
    /\ UNCHANGED supaVars

NextContext == CallFollowUp

SpecContext == InitRoute /\ [][NextContext]_vars

\* C35: the edit request of a follow-up turn is built from at most the 6
\* most recent entries of the conversation history, in their order, and
\* from no older entry
C35_RecentContext ==
    (routePc = "answered" /\ "decide" \in routeRes.calls) =>
        LET history == routeReq.conversationHistory
            context == routeRes.context
            older == Len(history) - Len(context)
        IN  /\ Len(context) <= 6
            /\ Len(context) = Min(Len(history), 6)
            /\ \A k \in 1..Len(context) : context[k] = history[older + k]

\* a follow-up request with seven entries was served: the oldest entry, the
\* only prompt of the user, is not in the context
C35_Witness ==
    /\ routePc = "answered"
    /\ "decide" \in routeRes.calls
    /\ Len(routeReq.conversationHistory) = 7
    /\ routeReq.conversationHistory[1].role = "user"
    /\ Len(routeRes.context) = 6
    /\ \A k \in 1..6 : routeRes.context[k].role = "assistant"

----------------------------------------------------------------------------
(* Undo and redo as inverses                                               *)

\* this step is a redo right after an undo made when canUndo held
redoAfterUndo ==
    lastOp.op = "undo" /\ canUndoOf(lastOp.from) /\ lastOp'.op = "redo"

\* this step is an undo right after a redo made when canRedo held
undoAfterRedo ==
    lastOp.op = "redo" /\ canRedoOf(lastOp.from, snapshots) /\ lastOp'.op = "undo"

\* C36: a redo right after an undo made when canUndo held, and an undo right
\* after a redo made when canRedo held, put the cursor back where it was;
\* undo and redo leave the snapshots as they are and send no remote call
C36_UndoRedoInverse ==
    [][/\ lastOp'.op \in {"undo", "redo"} =>
             UNCHANGED <<snapshots, db, nextId, loads, saves>>
       /\ redoAfterUndo => currentIndex' = lastOp.from
       /\ undoAfterRedo => currentIndex' = lastOp.from]_vars

----------------------------------------------------------------------------
(* Undo and redo of the page: the code buffer follows the history cursor   *)

\* a snapshot's code string as the characters held by the code buffer
codeChars(code) == IF code = "" THEN <<>> ELSE <<code>>

\* if (prevCode) { setCode(prevCode); compileCode(prevCode) } on what undo
\* or redo returned: null and the empty string are falsy, and a call that
\* threw never reaches the test
restoreCode(result) ==
    IF ~result.threw /\ result.ret # <<>> /\ result.ret[1] # ""
    THEN /\ pageCode' = codeChars(result.ret[1])
         /\ compilePending' = TRUE
    ELSE UNCHANGED <<pageCode, compilePending>>

handleUndo ==
    /\ Undo
    /\ restoreCode(lastOp')

handleRedo ==
    /\ Redo
    /\ restoreCode(lastOp')

\* the page of one session: generations save their code, the user undoes
\* and redoes, one operation at a time
NextBuffer ==
    /\ \/ Answer /\ UNCHANGED <<pageCode, compilePending>>
       \/ /\ Quiet
          /\ \E code \in SnapshotCodes : SaveStart(code)
          /\ UNCHANGED <<pageCode, compilePending>>
       \/ Quiet /\ handleUndo
       \/ Quiet /\ handleRedo
    /\ UNCHANGED <<isStreaming, prompt, hasGeneratedOnce, generationError,
                   errorCorrection, compilationError, runtimeError,
                   attemptNumber, aiGenerated, loopPc, pendingTrigger, turnPc,
                   codeChanged, sent, requests, turnOp>>
    /\ UNCHANGED patchVars
    /\ UNCHANGED ledgerVars
    /\ UNCHANGED routeVars
    /\ UNCHANGED supaVars

SpecBuffer == InitHistory /\ [][NextBuffer]_vars

\* C37: right after an undo or a redo that moved the cursor, the code buffer
\* holds the code of the snapshot under the cursor, an empty code included
C37_BufferFollowsCursor ==
    [][(lastOp'.op \in {"undo", "redo"} /\ lastOp'.moved) =>
          /\ currentIndex' + 1 \in DOMAIN snapshots'
          /\ pageCode' = codeChars(snapshots'[currentIndex' + 1].code)]_vars

----------------------------------------------------------------------------
(* Overlapping saves                                                       *)

\* this step completes a save right after another save completed: the two
\* calls were in flight together and both inserts succeeded
secondOfTwoSavesCompletes == lastOp.op = "saveDone" /\ lastOp'.op = "saveDone"

\* row is one of the snapshots of list
inList(row, list) == \E k \in DOMAIN list : list[k] = row

\* C38: when two saves that were in flight together have both completed,
\* the list in memory holds both new records with different sequence
\* numbers, and no two rows of a session in the table share a sequence number
C38_OverlappingSavesKeepBoth ==
    [][secondOfTwoSavesCompletes =>
          /\ inList(lastOp.data, snapshots')
          /\ inList(lastOp'.data, snapshots')
          /\ lastOp.data.sequence_number # lastOp'.data.sequence_number
          /\ \A r1, r2 \in db' :
                (r1.session_id = r2.session_id
                   /\ r1.sequence_number = r2.sequence_number) => r1 = r2]_vars

----------------------------------------------------------------------------
(* Loads that answer after the session has changed                         *)

\* C39: whenever the hook reports isLoaded, every snapshot in memory belongs
\* to the current session, whatever the order in which loads answer
C39_LoadedSnapshotsOfSession ==
    isLoaded => \A k \in DOMAIN snapshots : snapshots[k].session_id = sessionId

----------------------------------------------------------------------------
(* The validation gate in front of the initial generation                  *)

\* the request was answered by the initial generation: streamText was called
servedByInitialGeneration == routePc = "answered" /\ "streamText" \in routeRes.calls

\* the validation call was made for the request and judged it valid
judgedValid == "validate" \in routeRes.calls /\ routeUp.validation = "valid"

\* C40: every request that the initial generation serves was judged valid by
\* the validation call before
C40_GenerationOnlyAfterValidVerdict == servedByInitialGeneration => judgedValid

====
